---- MODULE Spec2Model ----
(***************************************************************************)
(* Request orchestration of komar_ai: the provider registry               *)
(* (src/src/lib/provider-manager.ts, current revision, lines 1-252), the   *)
(* response cache (src/unnamed/part_001, lines 1-234) and the chat         *)
(* endpoint POST (src/src/app/api/chat/route.ts).                          *)
(*                                                                         *)
(* JavaScript runs one callback at a time: a request runs without          *)
(* interruption from one await to the next.  POST awaits only the adapter  *)
(* call, so one action covers the code from the request's arrival to its   *)
(* first dispatch, and one action covers the code from an adapter's        *)
(* return to the next dispatch or to the response.                         *)
(***************************************************************************)
EXTENDS Integers, Sequences, FiniteSets, TLC

VARIABLES
  env,              \* API keys present in process.env
  nodeEnv,          \* process.env.NODE_ENV
  names,            \* the keys of providers and of status, in insertion order
  providers,        \* ProviderManager.providers : name -> ProviderConfig
  status,           \* ProviderManager.status    : name -> ProviderStatus
  fallbackOrder,    \* ProviderManager.fallbackOrder
  timers,           \* pending setTimeout(attemptProviderRecovery) per provider
  cache,            \* ResponseCache.cache, in Map insertion order
  hitCount,         \* ResponseCache.hitCount
  missCount,        \* ResponseCache.missCount
  maxEntries,       \* ResponseCache.maxEntries
  now,              \* Date.now()
  pc,               \* per request: where POST stands
  req,              \* per request: the body {message, mode}
  currentProvider,  \* per request: POST's currentProvider
  attemptCount,     \* per request: POST's attemptCount
  lastError,        \* per request: POST's lastError
  response,         \* per request: what POST returned
  dispatched,       \* history: providers handed to executeProviderRequest
  probesFired,      \* history: number of recovery timers that have fired
  reported,         \* history: failures reported straight to the registry
  client            \* AIService.sendMessage: the call in progress, if any

vars == <<env, nodeEnv, names, providers, status, fallbackOrder, timers, cache,
          hitCount, missCount, maxEntries, now, pc, req, currentProvider,
          attemptCount, lastError, response, dispatched, probesFired,
          reported, client>>

configVars == <<env, nodeEnv, names, providers, fallbackOrder>>
registryVars == <<status, timers>>
cacheVars == <<cache, hitCount, missCount, maxEntries>>
requestVars == <<pc, req, currentProvider, attemptCount, lastError, response,
                 dispatched>>

(***************************************************************************)
(* Bounds of the model.                                                    *)
(***************************************************************************)
NumRequests == 2
ClockSlack == 1
MaxProbeFirings == 2

Requests == DOMAIN pc

Null == "null"
Undefined == "undefined"

\* An optional value: absent, or present with its value.
None == <<>>
Some(x) == <<x>>

(***************************************************************************)
(* Text.  A message is a sequence of characters; Cyrillic letters are      *)
(* written c_<latin>, their capitals C_<latin>.                            *)
(***************************************************************************)
Range(s) == {s[i] : i \in 1..Len(s)}

Whitespace == {" "}
Digits == {"0", "1", "2", "3", "4", "5", "6", "7", "8", "9"}

UpperCase ==
  [c \in {"H", "E", "Y", "C_m", "C_o", "C_j", "C_p", "C_k", "C_ch", "C_s"} |->
     CASE c = "H" -> "h" [] c = "E" -> "e" [] c = "Y" -> "y"
       [] c = "C_m" -> "c_m" [] c = "C_o" -> "c_o" [] c = "C_j" -> "c_j"
       [] c = "C_p" -> "c_p" [] c = "C_k" -> "c_k" [] c = "C_ch" -> "c_ch"
       [] c = "C_s" -> "c_s"]

ToLowerChar(c) == IF c \in DOMAIN UpperCase THEN UpperCase[c] ELSE c

ToLowerCase(s) == [i \in 1..Len(s) |-> ToLowerChar(s[i])]

RECURSIVE TrimStart(_)
TrimStart(s) ==
  IF s # <<>> /\ Head(s) \in Whitespace THEN TrimStart(Tail(s)) ELSE s

RECURSIVE TrimEnd(_)
TrimEnd(s) ==
  IF s # <<>> /\ s[Len(s)] \in Whitespace
  THEN TrimEnd(SubSeq(s, 1, Len(s) - 1))
  ELSE s

Trim(s) == TrimEnd(TrimStart(s))

\* One pattern item matches one character: "\\d" any digit, else the letter
\* itself, compared without case (the /i flag).
ItemMatches(item, c, ignoreCase) ==
  IF item = "\\d" THEN c \in Digits
  ELSE IF ignoreCase THEN ToLowerChar(c) = ToLowerChar(item) ELSE c = item

MatchesAt(s, i, pat, ignoreCase) ==
  /\ i + Len(pat) - 1 <= Len(s)
  /\ \A k \in 1..Len(pat) : ItemMatches(pat[k], s[i + k - 1], ignoreCase)

Test(pat, ignoreCase, s) ==
  \E i \in 1..(Len(s) + 1) : MatchesAt(s, i, pat, ignoreCase)

(***************************************************************************)
(* Messages.                                                               *)
(***************************************************************************)
MsgEmpty == <<>>
MsgBlank == <<" ", " ", " ">>
MsgHi == <<"h", "i">>
MsgHey == <<"h", "e", "y">>
MsgHeyShouted == <<"H", "E", "Y", " ">>
MsgMoj == <<"C_m", "c_o", "c_j">>

\* commonQueries of warmup
MsgPrivet == <<"C_p", "c_r", "c_i", "c_v", "c_e", "c_t">>
MsgKakDela == <<"C_k", "c_a", "c_k", " ", "c_d", "c_e", "c_l", "c_a", "?">>
MsgChtoUmeesh ==
  <<"C_ch", "c_t", "c_o", " ", "c_t", "c_y", " ",
    "c_u", "c_m", "c_e", "c_e", "c_sh", "c_soft", "?">>
MsgSpasibo == <<"C_s", "c_p", "c_a", "c_s", "c_i", "c_b", "c_o">>

MsgHiPadded == <<"h", "i", " ">>
MsgStamp == <<"a", "t", " ", "1", "2", ":", "3", "0">>

\* Two messages whose key objects differ and whose key strings are equal:
\* "6e?ы?x6?sb?" and "6e4b", U+01C3, "a", U+0348.
MsgQuestions ==
  <<"6", "e", "?", "c_y", "?", "x", "6", "?", "s", "b", "?">>
MsgClick == <<"6", "e", "4", "b", "u01c3", "a", "u0348">>

KnownMessages ==
  {MsgEmpty, MsgBlank, MsgHi, MsgHey, MsgHeyShouted, MsgMoj, MsgPrivet,
   MsgKakDela, MsgChtoUmeesh, MsgSpasibo, MsgHiPadded, MsgStamp,
   MsgQuestions, MsgClick}

(***************************************************************************)
(* Encodings.  The code point of each character of the model, UTF-8,       *)
(* JSON.stringify of the key object, and base64.                           *)
(***************************************************************************)
Latin ==
  <<"a", "b", "c", "d", "e", "f", "g", "h", "i", "j", "k", "l", "m",
    "n", "o", "p", "q", "r", "s", "t", "u", "v", "w", "x", "y", "z">>

\* U+0430 .. U+044F
Cyrillic ==
  <<"c_a", "c_b", "c_v", "c_g", "c_d", "c_e", "c_zh", "c_z", "c_i", "c_j",
    "c_k", "c_l", "c_m", "c_n", "c_o", "c_p", "c_r", "c_s", "c_t", "c_u",
    "c_f", "c_h", "c_c", "c_ch", "c_sh", "c_shch", "c_hard", "c_y", "c_soft",
    "c_eh", "c_yu", "c_ya">>

DigitChars == <<"0", "1", "2", "3", "4", "5", "6", "7", "8", "9">>

\* U+01C3 (a click letter) and U+0348 (a combining mark) have no case.
Punctuation ==
  [c \in {" ", "\"", ",", "-", ".", ":", ">", "?", "\\", "{", "}",
          "u01c3", "u0348"} |->
     CASE c = " " -> 32 [] c = "\"" -> 34 [] c = "," -> 44 [] c = "-" -> 45
       [] c = "." -> 46 [] c = ":" -> 58 [] c = ">" -> 62 [] c = "?" -> 63
       [] c = "\\" -> 92 [] c = "{" -> 123 [] c = "}" -> 125
       [] c = "u01c3" -> 451 [] c = "u0348" -> 840]

LowerCodePoint(c) ==
  IF c \in Range(Latin) THEN 96 + CHOOSE i \in 1..Len(Latin) : Latin[i] = c
  ELSE IF c \in Range(Cyrillic)
  THEN 1071 + CHOOSE i \in 1..Len(Cyrillic) : Cyrillic[i] = c
  ELSE IF c \in Range(DigitChars)
  THEN 47 + CHOOSE i \in 1..Len(DigitChars) : DigitChars[i] = c
  ELSE Punctuation[c]

\* A capital precedes its small letter by 32, in both alphabets.
CodePoint ==
  [c \in Range(Latin) \cup Range(Cyrillic) \cup Range(DigitChars)
         \cup DOMAIN Punctuation \cup DOMAIN UpperCase |->
     IF c \in DOMAIN UpperCase THEN LowerCodePoint(UpperCase[c]) - 32
     ELSE LowerCodePoint(c)]

UTF8(cp) ==
  IF cp < 128 THEN <<cp>>
  ELSE IF cp < 2048 THEN <<192 + (cp \div 64), 128 + (cp % 64)>>
  ELSE <<224 + (cp \div 4096), 128 + ((cp \div 64) % 64), 128 + (cp % 64)>>

\* JSON.stringify of a string, without the enclosing quotes: the quote and
\* the backslash are escaped, every other character of the model is written
\* as it is.
RECURSIVE EscapeFrom(_, _)
EscapeFrom(text, i) ==
  IF i > Len(text) THEN <<>>
  ELSE (IF text[i] \in {"\"", "\\"} THEN <<"\\", text[i]>> ELSE <<text[i]>>)
       \o EscapeFrom(text, i + 1)

\* The letters of the mode and provider strings.
Spell(word) ==
  CASE word = "fast" -> <<"f", "a", "s", "t">>
    [] word = "deep" -> <<"d", "e", "e", "p">>
    [] word = "any" -> <<"a", "n", "y">>
    [] word = "cache" -> <<"c", "a", "c", "h", "e">>
    [] word = "groq" -> <<"g", "r", "o", "q">>
    [] word = "huggingface" ->
         <<"h", "u", "g", "g", "i", "n", "g", "f", "a", "c", "e">>
    [] word = "together" -> <<"t", "o", "g", "e", "t", "h", "e", "r">>
    [] word = "cohere" -> <<"c", "o", "h", "e", "r", "e">>
    [] word = "ollama" -> <<"o", "l", "l", "a", "m", "a">>
    [] word = "mock" -> <<"m", "o", "c", "k">>
    [] word = "openai" -> <<"o", "p", "e", "n", "a", "i">>
    [] word = "turbo" -> <<"t", "u", "r", "b", "o">>

Quoted(text) == <<"\"">> \o EscapeFrom(text, 1) \o <<"\"">>

\* JSON.stringify({message, mode, provider}): the properties in the order
\* they were written in, each value quoted.
stringify(keyData) ==
  <<"{", "\"", "m", "e", "s", "s", "a", "g", "e", "\"", ":">>
  \o Quoted(keyData.message)
  \o <<",", "\"", "m", "o", "d", "e", "\"", ":">>
  \o Quoted(Spell(keyData.mode))
  \o <<",", "\"", "p", "r", "o", "v", "i", "d", "e", "r", "\"", ":">>
  \o Quoted(Spell(keyData.provider))
  \o <<"}">>

\* Buffer.from(text, 'utf8'): the bytes of each character in turn.
RECURSIVE fromUTF8(_, _)
fromUTF8(text, i) ==
  IF i > Len(text) THEN <<>>
  ELSE UTF8(CodePoint[text[i]]) \o fromUTF8(text, i + 1)

Base64Alphabet ==
  <<"A", "B", "C", "D", "E", "F", "G", "H", "I", "J", "K", "L", "M",
    "N", "O", "P", "Q", "R", "S", "T", "U", "V", "W", "X", "Y", "Z">>
  \o Latin \o DigitChars \o <<"+", "/">>

ByteAt(bytes, k) == IF k <= Len(bytes) THEN bytes[k] ELSE 0

\* The three bytes of group g (from 0) as one number of 24 bits.
Group(bytes, g) ==
  ByteAt(bytes, 3 * g + 1) * 65536 + ByteAt(bytes, 3 * g + 2) * 256
  + ByteAt(bytes, 3 * g + 3)

\* buffer.toString('base64'): each three bytes give four characters; a last
\* group of one or two bytes is filled with "=".
toBase64(bytes) ==
  [i \in 1..(4 * ((Len(bytes) + 2) \div 3)) |->
     IF 3 * ((i - 1) \div 4) + ((i - 1) % 4) > Len(bytes)
     THEN "="
     ELSE Base64Alphabet[
            ((Group(bytes, (i - 1) \div 4) \div (64 ^ (3 - ((i - 1) % 4)))) % 64) + 1]]

(***************************************************************************)
(* Provider registry: ProviderManager.                                     *)
(***************************************************************************)
EnvKeys == {"GROQ_API_KEY", "TOGETHER_API_KEY", "COHERE_API_KEY"}

\* The configs array of initializeProviders; no config sets healthCheck.
Configs(e) ==
  << [name |-> "groq", priority |-> 1, enabled |-> "GROQ_API_KEY" \in e,
      maxRetries |-> 5, timeout |-> 45000, healthCheck |-> FALSE],
     [name |-> "huggingface", priority |-> 2, enabled |-> TRUE,
      maxRetries |-> 5, timeout |-> 90000, healthCheck |-> FALSE],
     [name |-> "together", priority |-> 3, enabled |-> "TOGETHER_API_KEY" \in e,
      maxRetries |-> 2, timeout |-> 45000, healthCheck |-> FALSE],
     [name |-> "cohere", priority |-> 4, enabled |-> "COHERE_API_KEY" \in e,
      maxRetries |-> 2, timeout |-> 30000, healthCheck |-> FALSE],
     [name |-> "ollama", priority |-> 5, enabled |-> TRUE,
      maxRetries |-> 1, timeout |-> 120000, healthCheck |-> FALSE],
     [name |-> "mock", priority |-> 999, enabled |-> FALSE,
      maxRetries |-> 1, timeout |-> 5000, healthCheck |-> FALSE] >>

\* Array.prototype.sort((a, b) => a.priority - b.priority): stable.
RECURSIVE SortByPriority(_)
SortByPriority(s) ==
  IF s = <<>> THEN <<>>
  ELSE LET front == SortByPriority(SubSeq(s, 1, Len(s) - 1))
           last == s[Len(s)]
           before == SelectSeq(front, LAMBDA c : c.priority <= last.priority)
           after == SelectSeq(front, LAMBDA c : c.priority > last.priority)
       IN before \o <<last>> \o after

InitialProviders(configs) ==
  [n \in {configs[i].name : i \in 1..Len(configs)} |->
     LET i == CHOOSE j \in 1..Len(configs) :
                /\ configs[j].name = n
                /\ \A k \in (j + 1)..Len(configs) : configs[k].name # n
     IN configs[i]]

InitialStatus(configs, t) ==
  [n \in {configs[i].name : i \in 1..Len(configs)} |->
     [name |-> n, isHealthy |-> TRUE, lastError |-> Undefined,
      lastCheck |-> t, consecutiveFailures |-> 0]]

\* As InitialFallbackOrder, without the filter on enabled.
InitialFallbackOrder_Unfiltered(configs) ==
  LET sorted == SortByPriority(configs)
  IN [i \in 1..Len(sorted) |-> sorted[i].name]

InitialFallbackOrder(configs) ==
  LET sorted == SortByPriority(SelectSeq(configs, LAMBDA c : c.enabled))
  IN [i \in 1..Len(sorted) |-> sorted[i].name]

\* As IsAvailable, without the test of isHealthy.
IsAvailable_IgnoresHealth(st, providerName) ==
  /\ providerName \in DOMAIN st
  /\ providerName \in DOMAIN providers
  /\ providers[providerName].enabled

\* status?.isHealthy && config?.enabled
IsAvailable(st, providerName) ==
  /\ providerName \in DOMAIN st
  /\ st[providerName].isHealthy
  /\ providerName \in DOMAIN providers
  /\ providers[providerName].enabled

Min(S) == CHOOSE x \in S : \A y \in S : x <= y

\* As getBestAvailableProvider, taking the last available provider.
getBestAvailableProvider_LastAvailable(st) ==
  LET ok == {i \in 1..Len(fallbackOrder) : IsAvailable(st, fallbackOrder[i])}
  IN IF ok = {} THEN Null
     ELSE fallbackOrder[CHOOSE i \in ok : \A j \in ok : i >= j]

\* As getBestAvailableProvider, taking the first enabled provider whatever
\* its health.
getBestAvailableProvider_IgnoresHealth(st) ==
  LET ok == {i \in 1..Len(fallbackOrder) : providers[fallbackOrder[i]].enabled}
  IN IF ok = {} THEN Null ELSE fallbackOrder[Min(ok)]

getBestAvailableProvider(st) ==
  LET ok == {i \in 1..Len(fallbackOrder) : IsAvailable(st, fallbackOrder[i])}
  IN IF ok = {} THEN Null ELSE fallbackOrder[Min(ok)]

\* Array.prototype.indexOf, 1-based; 0 when absent.
IndexOf(s, x) ==
  IF x \in Range(s) THEN Min({i \in 1..Len(s) : s[i] = x}) ELSE 0

\* As getNextProvider, scanning the whole of fallbackOrder but current.
getNextProvider_FromStart(st, current) ==
  LET currentIndex == IndexOf(fallbackOrder, current)
      ok == {i \in 1..Len(fallbackOrder) :
               i # currentIndex /\ IsAvailable(st, fallbackOrder[i])}
  IN IF currentIndex = 0 \/ currentIndex >= Len(fallbackOrder) THEN Null
     ELSE IF ok = {} THEN Null
     ELSE fallbackOrder[Min(ok)]

\* As getNextProvider, going on from the start of fallbackOrder when no
\* provider after current is available.
getNextProvider_WrapsAround(st, current) ==
  LET currentIndex == IndexOf(fallbackOrder, current)
      after == {i \in (currentIndex + 1)..Len(fallbackOrder) :
                  IsAvailable(st, fallbackOrder[i])}
      before == {i \in 1..(currentIndex - 1) :
                   IsAvailable(st, fallbackOrder[i])}
  IN IF currentIndex = 0 THEN Null
     ELSE IF after # {} THEN fallbackOrder[Min(after)]
     ELSE IF before # {} THEN fallbackOrder[Min(before)]
     ELSE Null

getNextProvider(st, current) ==
  LET currentIndex == IndexOf(fallbackOrder, current)
      ok == {i \in (currentIndex + 1)..Len(fallbackOrder) :
               IsAvailable(st, fallbackOrder[i])}
  IN IF currentIndex = 0 \/ currentIndex >= Len(fallbackOrder) THEN Null
     ELSE IF ok = {} THEN Null
     ELSE fallbackOrder[Min(ok)]

\* As canRetryWithProvider, with <= for <.
canRetryWithProvider_OffByOne(st, providerName, attempts) ==
  IF providerName \notin DOMAIN providers \/ providerName \notin DOMAIN st
  THEN FALSE
  ELSE attempts <= providers[providerName].maxRetries /\ st[providerName].isHealthy

\* As canRetryWithProvider, without the test of isHealthy.
canRetryWithProvider_IgnoresHealth(st, providerName, attempts) ==
  IF providerName \notin DOMAIN providers \/ providerName \notin DOMAIN st
  THEN FALSE
  ELSE attempts < providers[providerName].maxRetries

canRetryWithProvider(st, providerName, attempts) ==
  IF providerName \notin DOMAIN providers \/ providerName \notin DOMAIN st
  THEN FALSE
  ELSE attempts < providers[providerName].maxRetries /\ st[providerName].isHealthy

\* As markProviderAsUnhealthy, counting once the reports that reach it at
\* the same instant.
markProviderAsUnhealthy_StaleCount(reg, providerName, error, t) ==
  IF providerName \in DOMAIN reg.status /\ providerName \in DOMAIN providers
  THEN LET old == reg.status[providerName]
           failures == IF old.consecutiveFailures > 0 /\ old.lastCheck = t
                       THEN old.consecutiveFailures
                       ELSE old.consecutiveFailures + 1
       IN [status |-> [reg.status EXCEPT ![providerName] =
                         [name |-> old.name,
                          isHealthy |-> IF failures >= providers[providerName].maxRetries
                                        THEN FALSE ELSE old.isHealthy,
                          lastError |-> error,
                          lastCheck |-> t,
                          consecutiveFailures |-> failures]],
           timers |-> [reg.timers EXCEPT ![providerName] = @ + 1]]
  ELSE reg

\* As markProviderAsUnhealthy, arming a recovery timer only once the
\* threshold is reached.
markProviderAsUnhealthy_ProbeAtThresholdOnly(reg, providerName, error, t) ==
  IF providerName \in DOMAIN reg.status /\ providerName \in DOMAIN providers
  THEN LET old == reg.status[providerName]
           failures == old.consecutiveFailures + 1
           reached == failures >= providers[providerName].maxRetries
       IN [status |-> [reg.status EXCEPT ![providerName] =
                         [name |-> old.name,
                          isHealthy |-> IF reached THEN FALSE ELSE old.isHealthy,
                          lastError |-> error,
                          lastCheck |-> t,
                          consecutiveFailures |-> failures]],
           timers |-> [reg.timers EXCEPT ![providerName] =
                         IF reached THEN @ + 1 ELSE @]]
  ELSE reg

\* As markProviderAsUnhealthy, marking the provider one failure early.
markProviderAsUnhealthy_EarlyThreshold(reg, providerName, error, t) ==
  IF providerName \in DOMAIN reg.status /\ providerName \in DOMAIN providers
  THEN LET old == reg.status[providerName]
           failures == old.consecutiveFailures + 1
       IN [status |-> [reg.status EXCEPT ![providerName] =
                         [name |-> old.name,
                          isHealthy |-> IF failures + 1 >= providers[providerName].maxRetries
                                        THEN FALSE ELSE old.isHealthy,
                          lastError |-> error,
                          lastCheck |-> t,
                          consecutiveFailures |-> failures]],
           timers |-> [reg.timers EXCEPT ![providerName] = @ + 1]]
  ELSE reg

\* As markProviderAsUnhealthy, with > for >= in the threshold test.
markProviderAsUnhealthy_StrictThreshold(reg, providerName, error, t) ==
  IF providerName \in DOMAIN reg.status /\ providerName \in DOMAIN providers
  THEN LET old == reg.status[providerName]
           failures == old.consecutiveFailures + 1
       IN [status |-> [reg.status EXCEPT ![providerName] =
                         [name |-> old.name,
                          isHealthy |-> IF failures > providers[providerName].maxRetries
                                        THEN FALSE ELSE old.isHealthy,
                          lastError |-> error,
                          lastCheck |-> t,
                          consecutiveFailures |-> failures]],
           timers |-> [reg.timers EXCEPT ![providerName] = @ + 1]]
  ELSE reg

\* The registry operations take and return reg = [status, timers].
\* Both branches of markProviderAsUnhealthy arm one recovery timer (30 s
\* once unhealthy, 10 s below the threshold); a pending timer may fire at
\* any later step, so only their number per provider is kept.
markProviderAsUnhealthy(reg, providerName, error, t) ==
  IF providerName \in DOMAIN reg.status /\ providerName \in DOMAIN providers
  THEN LET old == reg.status[providerName]
           failures == old.consecutiveFailures + 1
       IN [status |-> [reg.status EXCEPT ![providerName] =
                         [name |-> old.name,
                          isHealthy |-> IF failures >= providers[providerName].maxRetries
                                        THEN FALSE ELSE old.isHealthy,
                          lastError |-> error,
                          lastCheck |-> t,
                          consecutiveFailures |-> failures]],
           timers |-> [reg.timers EXCEPT ![providerName] = @ + 1]]
  ELSE reg

\* As markProviderAsHealthy, leaving lastError as it is.
markProviderAsHealthy_KeepsError(reg, providerName, t) ==
  IF providerName \in DOMAIN reg.status
  THEN [reg EXCEPT !.status[providerName] =
          [name |-> @.name, isHealthy |-> TRUE, lastError |-> @.lastError,
           lastCheck |-> t, consecutiveFailures |-> 0]]
  ELSE reg

\* As markProviderAsHealthy, resetting the record of every provider.
markProviderAsHealthy_ResetsAll(reg, providerName, t) ==
  IF providerName \in DOMAIN reg.status
  THEN [reg EXCEPT !.status =
          [q \in DOMAIN reg.status |->
             [name |-> reg.status[q].name, isHealthy |-> TRUE,
              lastError |-> Undefined, lastCheck |-> t,
              consecutiveFailures |-> 0]]]
  ELSE reg

markProviderAsHealthy(reg, providerName, t) ==
  IF providerName \in DOMAIN reg.status
  THEN [reg EXCEPT !.status[providerName] =
          [name |-> @.name, isHealthy |-> TRUE, lastError |-> Undefined,
           lastCheck |-> t, consecutiveFailures |-> 0]]
  ELSE reg

Max(a, b) == IF a >= b THEN a ELSE b

\* As attemptProviderRecovery, lowering the count by one and marking the
\* provider healthy at zero.
attemptProviderRecovery_ByOne(reg, providerName, checkResult, t) ==
  IF ~(providerName \in DOMAIN providers /\ providers[providerName].enabled)
  THEN reg
  ELSE IF providers[providerName].healthCheck
  THEN IF checkResult THEN markProviderAsHealthy(reg, providerName, t) ELSE reg
  ELSE IF providerName \in DOMAIN reg.status
  THEN LET failures == Max(0, reg.status[providerName].consecutiveFailures - 1)
           lowered == [reg EXCEPT
                         !.status[providerName].consecutiveFailures = failures]
       IN IF failures = 0
          THEN markProviderAsHealthy(lowered, providerName, t)
          ELSE lowered
  ELSE reg

\* As attemptProviderRecovery, lowering the count without marking the
\* provider healthy.
attemptProviderRecovery_LowersOnly(reg, providerName, checkResult, t) ==
  IF ~(providerName \in DOMAIN providers /\ providers[providerName].enabled)
  THEN reg
  ELSE IF providers[providerName].healthCheck
  THEN IF checkResult THEN markProviderAsHealthy(reg, providerName, t) ELSE reg
  ELSE IF providerName \in DOMAIN reg.status
  THEN [reg EXCEPT !.status[providerName].consecutiveFailures =
                      Max(0, @ - 2)]
  ELSE reg

\* checkResult is what config.healthCheck() answered, when one is configured.
attemptProviderRecovery(reg, providerName, checkResult, t) ==
  IF ~(providerName \in DOMAIN providers /\ providers[providerName].enabled)
  THEN reg
  ELSE IF providers[providerName].healthCheck
  THEN IF checkResult THEN markProviderAsHealthy(reg, providerName, t) ELSE reg
  ELSE IF providerName \in DOMAIN reg.status
  THEN LET failures == Max(0, reg.status[providerName].consecutiveFailures - 2)
           lowered == [reg EXCEPT
                         !.status[providerName].consecutiveFailures = failures]
       IN IF failures <= 1
          THEN markProviderAsHealthy(lowered, providerName, t)
          ELSE lowered
  ELSE reg

\* As getProvidersStatus, leaving out the providers that are not enabled.
getProvidersStatus_EnabledOnly(st, order) ==
  LET on == SelectSeq(order, LAMBDA n : providers[n].enabled)
  IN [i \in 1..Len(on) |-> st[on[i]]]

\* Array.from(this.status.values()): the records in insertion order.
getProvidersStatus(st, order) ==
  [i \in 1..Len(order) |-> st[order[i]]]

(***************************************************************************)
(* Response cache: ResponseCache.                                          *)
(***************************************************************************)
DefaultTTL == 1800000
WarmupTTL == 86400000
MinMessageLength == 3
MaxMessageLength == 1000
FrequencyBonus == 60000

\* keyData of generateCacheKey: the normalised message, the mode and
\* provider || 'any'.
KeyData(message, mode, provider) ==
  [message |-> Trim(ToLowerCase(message)),
   mode |-> mode,
   provider |-> IF provider \in {Undefined, Null, ""} THEN "any" ELSE provider]

Strip(text) == SelectSeq(text, LAMBDA ch : ch \notin {"+", "/", "="})

\* The key string: the base64 text of the UTF-8 bytes of JSON.stringify(keyData),
\* with every "+", "/" and "=" removed.
EncodeKey(keyData) ==
  CHOOSE key \in { Strip(toBase64(buffer)) :
                     buffer \in {fromUTF8(stringify(keyData), 1)} } : TRUE

\* The key strings of the messages above, computed once.
KnownKeys ==
  [keyData \in { KeyData(m, mode, scope) :
                   m \in KnownMessages, mode \in {"fast", "deep"},
                   scope \in {Undefined, "cache", "groq", "huggingface",
                              "together", "cohere", "ollama"} } |->
     EncodeKey(keyData)]

KeyOf(keyData) ==
  IF keyData \in DOMAIN KnownKeys THEN KnownKeys[keyData] ELSE EncodeKey(keyData)

generateCacheKey(message, mode, provider) ==
  KeyOf(KeyData(message, mode, provider))

\* timePatterns[0] and timePatterns[2], both /i.
VolatileWords ==
  { <<"c_s", "c_e", "c_j", "c_ch", "c_a", "c_s">>,
    <<"c_s", "c_e", "c_g", "c_o", "c_d", "c_n", "c_ya">>,
    <<"c_v", "c_ch", "c_e", "c_r", "c_a">>,
    <<"c_z", "c_a", "c_v", "c_t", "c_r", "c_a">>,
    <<"c_v", "c_r", "c_e", "c_m", "c_ya">>,
    <<"c_d", "c_a", "c_t", "c_a">>,
    <<"c_m", "c_e", "c_n", "c_ya", " ", "c_z", "c_o", "c_v", "c_u", "c_t">>,
    <<"c_m", "c_o", "c_e", " ", "c_i", "c_m", "c_ya">>,
    <<"c_ya", " ", "c_r", "c_a", "c_b", "c_o", "c_t", "c_a", "c_yu">>,
    <<"c_m", "c_o", "c_j">> }

\* timePatterns[1]: \d{2}:\d{2} | \d{2}\.\d{2}\.\d{4} | \d{4}-\d{2}-\d{2}
VolatileStamps ==
  { <<"\\d", "\\d", ":", "\\d", "\\d">>,
    <<"\\d", "\\d", ".", "\\d", "\\d", ".", "\\d", "\\d", "\\d", "\\d">>,
    <<"\\d", "\\d", "\\d", "\\d", "-", "\\d", "\\d", "-", "\\d", "\\d">> }

\* As shouldCache, with the word patterns matched case-sensitively.
shouldCache_CaseSensitive(message, mode) ==
  IF Len(message) < MinMessageLength \/ Len(message) > MaxMessageLength
  THEN FALSE
  ELSE ~ \/ \E w \in VolatileWords : Test(w, FALSE, message)
         \/ \E p \in VolatileStamps : Test(p, FALSE, message)

shouldCache(message, mode) ==
  IF Len(message) < MinMessageLength \/ Len(message) > MaxMessageLength
  THEN FALSE
  ELSE ~ \/ \E w \in VolatileWords : Test(w, TRUE, message)
         \/ \E p \in VolatileStamps : Test(p, FALSE, message)

\* Map.get: the position of the entry stored under key, 0 when there is none.
Lookup(entries, key) ==
  IF \E i \in 1..Len(entries) : entries[i].key = key
  THEN CHOOSE i \in 1..Len(entries) : entries[i].key = key
  ELSE 0

\* Map.delete
Delete(entries, key) == SelectSeq(entries, LAMBDA e : e.key # key)

\* Map.set: an existing key keeps its place, a new key goes last.
Put(entries, entry) ==
  LET i == Lookup(entries, entry.key)
  IN IF i = 0 THEN Append(entries, entry) ELSE [entries EXCEPT ![i] = entry]

\* As getByKey, with >= for > in the test of expiry.
getByKey_ExpiredAtNow(cs, key, t) ==
  LET i == Lookup(cs.cache, key)
  IN IF i = 0
     THEN [cache |-> cs.cache, hitCount |-> cs.hitCount,
           missCount |-> cs.missCount + 1, result |-> None]
     ELSE IF t >= cs.cache[i].expiresAt
     THEN [cache |-> Delete(cs.cache, key), hitCount |-> cs.hitCount,
           missCount |-> cs.missCount + 1, result |-> None]
     ELSE [cache |-> [cs.cache EXCEPT
                        ![i].accessCount = @ + 1,
                        ![i].lastAccessed = t],
           hitCount |-> cs.hitCount + 1,
           missCount |-> cs.missCount,
           result |-> Some(cs.cache[i].data)]

\* As getByKey, counting a hit as a miss too.
getByKey_HitCountsMiss(cs, key, t) ==
  LET i == Lookup(cs.cache, key)
  IN IF i = 0
     THEN [cache |-> cs.cache, hitCount |-> cs.hitCount,
           missCount |-> cs.missCount + 1, result |-> None]
     ELSE IF t > cs.cache[i].expiresAt
     THEN [cache |-> Delete(cs.cache, key), hitCount |-> cs.hitCount,
           missCount |-> cs.missCount + 1, result |-> None]
     ELSE [cache |-> [cs.cache EXCEPT
                        ![i].accessCount = @ + 1,
                        ![i].lastAccessed = t],
           hitCount |-> cs.hitCount + 1,
           missCount |-> cs.missCount + 1,
           result |-> Some(cs.cache[i].data)]

\* get from the line that reads the entry: const entry = this.cache.get(key).
getByKey(cs, key, t) ==
  LET i == Lookup(cs.cache, key)
  IN IF i = 0
     THEN [cache |-> cs.cache, hitCount |-> cs.hitCount,
           missCount |-> cs.missCount + 1, result |-> None]
     ELSE IF t > cs.cache[i].expiresAt
     THEN [cache |-> Delete(cs.cache, key), hitCount |-> cs.hitCount,
           missCount |-> cs.missCount + 1, result |-> None]
     ELSE [cache |-> [cs.cache EXCEPT
                        ![i].accessCount = @ + 1,
                        ![i].lastAccessed = t],
           hitCount |-> cs.hitCount + 1,
           missCount |-> cs.missCount,
           result |-> Some(cs.cache[i].data)]

\* The cache operations take and return
\* cs = [cache, hitCount, missCount]; get adds the result it returns
\* (None for null).
get(cs, message, mode, provider, t) ==
  IF ~shouldCache(message, mode)
  THEN [cache |-> cs.cache, hitCount |-> cs.hitCount,
        missCount |-> cs.missCount, result |-> None]
  ELSE getByKey(cs, generateCacheKey(message, mode, provider), t)

Score(entry) == entry.lastAccessed + entry.accessCount * FrequencyBonus

\* entries.sort((a, b) => scoreA - scoreB): stable.
RECURSIVE SortByScore(_)
SortByScore(s) ==
  IF s = <<>> THEN <<>>
  ELSE LET front == SortByScore(SubSeq(s, 1, Len(s) - 1))
           last == s[Len(s)]
           before == SelectSeq(front, LAMBDA e : Score(e) <= Score(last))
           after == SelectSeq(front, LAMBDA e : Score(e) > Score(last))
       IN before \o <<last>> \o after

\* As cleanup, ranking the expired entries with the others.
cleanup_KeepsExpired(entries, limit, t) ==
  LET sorted == SortByScore(entries)
      toRemove == Len(entries) \div 4
      removed == {sorted[i].key : i \in 1..toRemove}
  IN IF 10 * Len(entries) >= 9 * limit
     THEN SelectSeq(entries, LAMBDA e : e.key \notin removed)
     ELSE entries

\* As cleanup, removing the expired entries only.
cleanup_ExpiredOnly(entries, limit, t) ==
  SelectSeq(entries, LAMBDA e : ~(t > e.expiresAt))

\* As cleanup, removing the entries of highest score.
cleanup_RemovesNewest(entries, limit, t) ==
  LET live == SelectSeq(entries, LAMBDA e : ~(t > e.expiresAt))
      sorted == SortByScore(live)
      toRemove == Len(live) \div 4
      removed == {sorted[Len(sorted) + 1 - i].key : i \in 1..toRemove}
  IN IF 10 * Len(live) >= 9 * limit
     THEN SelectSeq(live, LAMBDA e : e.key \notin removed)
     ELSE live

\* size >= maxEntries * 0.9 and Math.floor(length * 0.25), in integers.
cleanup(entries, limit, t) ==
  LET live == SelectSeq(entries, LAMBDA e : ~(t > e.expiresAt))
      sorted == SortByScore(live)
      toRemove == Len(live) \div 4
      removed == {sorted[i].key : i \in 1..toRemove}
  IN IF 10 * Len(live) >= 9 * limit
     THEN SelectSeq(live, LAMBDA e : e.key \notin removed)
     ELSE live

\* ttl || this.defaultTTL; an omitted ttl is passed as 0.
set(cs, limit, message, mode, data, provider, ttl, t) ==
  IF ~shouldCache(message, mode)
  THEN cs
  ELSE LET cleaned == IF Len(cs.cache) >= limit
                      THEN cleanup(cs.cache, limit, t)
                      ELSE cs.cache
           actualTTL == IF ttl = 0 THEN DefaultTTL ELSE ttl
           entry == [key |-> generateCacheKey(message, mode, provider),
                     data |-> data,
                     timestamp |-> t,
                     expiresAt |-> t + actualTTL,
                     accessCount |-> 1,
                     lastAccessed |-> t]
       IN [cache |-> Put(cleaned, entry), hitCount |-> cs.hitCount,
           missCount |-> cs.missCount]


CommonQueries ==
  << [message |-> MsgPrivet, mode |-> "fast", response |-> "PrivetAnswer"],
     [message |-> MsgKakDela, mode |-> "fast", response |-> "KakDelaAnswer"],
     [message |-> MsgChtoUmeesh, mode |-> "fast", response |-> "ChtoUmeeshAnswer"],
     [message |-> MsgSpasibo, mode |-> "fast", response |-> "SpasiboAnswer"] >>

RECURSIVE WarmupFrom(_, _, _, _)
WarmupFrom(cs, limit, n, t) ==
  IF n > Len(CommonQueries) THEN cs
  ELSE LET q == CommonQueries[n]
       IN WarmupFrom(set(cs, limit, q.message, q.mode,
                         [content |-> q.response, mode |-> q.mode,
                          model |-> "Cache: Prewarmed"],
                         "cache", WarmupTTL, t),
                     limit, n + 1, t)

warmup(cs, limit, t) == WarmupFrom(cs, limit, 1, t)

(***************************************************************************)
(* Inputs.                                                                 *)
(***************************************************************************)

\* The request bodies the clients send.
Bodies ==
  { [message |-> MsgEmpty, mode |-> "fast"],
    [message |-> MsgBlank, mode |-> "deep"],
    [message |-> MsgHey, mode |-> "turbo"],
    [message |-> MsgHey, mode |-> "fast"],
    [message |-> MsgMoj, mode |-> "deep"] }

\* The environments the process is started in.
Environments == {{}}

\* What an adapter answers, and the message of the error each adapter throws.
Contents == {"answer1"}

ErrorMessage(adapter) ==
  CASE adapter = "groq" -> "GroqError"
    [] adapter = "huggingface" -> "HuggingFaceError"
    [] adapter = "together" -> "TogetherError"
    [] adapter = "cohere" -> "CohereError"
    [] adapter = "ollama" -> "OllamaError"
    [] adapter = "openai" -> "OpenAIError"
    [] OTHER -> "AllProvidersDownError"

(***************************************************************************)
(* The chat endpoint: POST.                                                *)
(***************************************************************************)
\* The switch of executeProviderRequest: the adapter a provider name selects.
executeProviderRequest(provider) ==
  IF provider \in {"huggingface", "ollama", "together", "groq", "cohere", "openai"}
  THEN provider
  ELSE "mock"

\* The 503 response built after the while loop.
UnavailableResponse(st, order, err, mode) ==
  [status |-> 503,
   error |-> "AllProvidersUnavailable",
   content |-> None,
   diagnostics |->
     IF mode = "development"
     THEN Some([availableProviders |->
                  LET all == getProvidersStatus(st, order)
                  IN [i \in 1..Len(all) |->
                        [name |-> all[i].name, healthy |-> all[i].isHealthy,
                         error |-> all[i].lastError]],
                lastError |-> err])
     ELSE None]

ValidationResponse(error) ==
  [status |-> 400, error |-> error, content |-> None, diagnostics |-> None]

OkResponse(data) ==
  [status |-> 200, error |-> Undefined, content |-> Some(data),
   diagnostics |-> None]

NoResponse ==
  [status |-> 0, error |-> Undefined, content |-> None, diagnostics |-> None]

NoRequest == [message |-> <<>>, mode |-> Undefined]

\* As MessageIsEmpty, without the trim.
MessageIsEmpty_NoTrim(message) == message = <<>>

\* !message || !message.trim()
MessageIsEmpty(message) == message = <<>> \/ Trim(message) = <<>>

ModeIsValid(mode) == mode \in {"fast", "deep"}

\* The while condition: currentProvider && currentProvider !== 'mock'
LoopContinues(provider) == provider # Null /\ provider # "mock"

\* As BeginPOST, going on to the provider loop after a cache hit.
BeginPOST_IgnoresHit(message, mode, cs, st, order, nodeMode, t) ==
  IF MessageIsEmpty(message)
  THEN [pc |-> "ValidationError", cs |-> cs, currentProvider |-> Null,
        attemptCount |-> 0, response |-> ValidationResponse("EmptyMessage")]
  ELSE IF ~ModeIsValid(mode)
  THEN [pc |-> "ValidationError", cs |-> cs, currentProvider |-> Null,
        attemptCount |-> 0, response |-> ValidationResponse("InvalidMode")]
  ELSE LET got == get(cs, message, mode, Undefined, t)
           after == [cache |-> got.cache, hitCount |-> got.hitCount,
                     missCount |-> got.missCount]
           best == getBestAvailableProvider(st)
       IN IF LoopContinues(best)
          THEN [pc |-> "Dispatching", cs |-> after, currentProvider |-> best,
                attemptCount |-> 1, response |-> NoResponse]
          ELSE [pc |-> "NoProviders", cs |-> after, currentProvider |-> best,
                attemptCount |-> 0,
                response |-> UnavailableResponse(st, order, Undefined, nodeMode)]

\* POST from the request's arrival to its first await of an adapter, or to
\* its response.  Returns the request's new fields and the new cache.
BeginPOST(message, mode, cs, st, order, nodeMode, t) ==
  IF MessageIsEmpty(message)
  THEN [pc |-> "ValidationError", cs |-> cs, currentProvider |-> Null,
        attemptCount |-> 0, response |-> ValidationResponse("EmptyMessage")]
  ELSE IF ~ModeIsValid(mode)
  THEN [pc |-> "ValidationError", cs |-> cs, currentProvider |-> Null,
        attemptCount |-> 0, response |-> ValidationResponse("InvalidMode")]
  ELSE LET got == get(cs, message, mode, Undefined, t)
           after == [cache |-> got.cache, hitCount |-> got.hitCount,
                     missCount |-> got.missCount]
           best == getBestAvailableProvider(st)
       IN IF got.result # None
          THEN [pc |-> "CacheHit", cs |-> after, currentProvider |-> Null,
                attemptCount |-> 0, response |-> OkResponse(got.result[1])]
          ELSE IF LoopContinues(best)
          THEN [pc |-> "Dispatching", cs |-> after, currentProvider |-> best,
                attemptCount |-> 1, response |-> NoResponse]
          ELSE [pc |-> "NoProviders", cs |-> after, currentProvider |-> best,
                attemptCount |-> 0,
                response |-> UnavailableResponse(st, order, Undefined, nodeMode)]

\* As AfterFailure, without attemptCount = 0 at the switch of provider.
AfterFailure_KeepsCount(provider, attempts, error, reg, order, nodeMode, t) ==
  LET marked == markProviderAsUnhealthy(reg, provider, error, t)
      next == getNextProvider(marked.status, provider)
  IN IF canRetryWithProvider(marked.status, provider, attempts)
     THEN [pc |-> "Dispatching", reg |-> marked, currentProvider |-> provider,
           attemptCount |-> attempts + 1, response |-> NoResponse]
     ELSE IF next # Null /\ LoopContinues(next)
     THEN [pc |-> "Dispatching", reg |-> marked, currentProvider |-> next,
           attemptCount |-> attempts + 1, response |-> NoResponse]
     ELSE [pc |-> "ExhaustedFailure", reg |-> marked,
           currentProvider |-> IF next # Null THEN next ELSE provider,
           attemptCount |-> IF next # Null THEN 0 ELSE attempts,
           response |-> UnavailableResponse(marked.status, order, error, nodeMode)]

\* The catch block of the while loop, then the loop's next turn up to its
\* await, or the 503 response.  Returns the request's new fields and the
\* new registry.
AfterFailure(provider, attempts, error, reg, order, nodeMode, t) ==
  LET marked == markProviderAsUnhealthy(reg, provider, error, t)
      next == getNextProvider(marked.status, provider)
  IN IF canRetryWithProvider(marked.status, provider, attempts)
     THEN [pc |-> "Dispatching", reg |-> marked, currentProvider |-> provider,
           attemptCount |-> attempts + 1, response |-> NoResponse]
     ELSE IF next # Null /\ LoopContinues(next)
     THEN [pc |-> "Dispatching", reg |-> marked, currentProvider |-> next,
           attemptCount |-> 1, response |-> NoResponse]
     ELSE [pc |-> "ExhaustedFailure", reg |-> marked,
           currentProvider |-> IF next # Null THEN next ELSE provider,
           attemptCount |-> IF next # Null THEN 0 ELSE attempts,
           response |-> UnavailableResponse(marked.status, order, error, nodeMode)]

Terminal == {"ValidationError", "CacheHit", "Success", "NoProviders",
             "ExhaustedFailure", "InternalError"}

CacheState == [cache |-> cache, hitCount |-> hitCount, missCount |-> missCount]
Registry == [status |-> status, timers |-> timers]

\* As Receive, waiting until no other request is awaiting an adapter.
Receive_WaitsForAdapters(r, message, mode) ==
  /\ pc[r] = "idle"
  /\ \A q \in Requests : q < r => pc[q] # "idle"
  /\ \A q \in Requests : pc[q] # "Dispatching"
  /\ LET out == BeginPOST(message, mode, CacheState, status, names,
                          nodeEnv, now)
     IN /\ pc' = [pc EXCEPT ![r] = out.pc]
        /\ req' = [req EXCEPT ![r] = [message |-> message, mode |-> mode]]
        /\ cache' = out.cs.cache
        /\ hitCount' = out.cs.hitCount
        /\ missCount' = out.cs.missCount
        /\ currentProvider' = [currentProvider EXCEPT ![r] = out.currentProvider]
        /\ attemptCount' = [attemptCount EXCEPT ![r] = out.attemptCount]
        /\ response' = [response EXCEPT ![r] = out.response]
        /\ dispatched' = [dispatched EXCEPT ![r] =
                            IF out.pc = "Dispatching"
                            THEN <<out.currentProvider>> ELSE <<>>]
  /\ UNCHANGED <<configVars, reported, client, registryVars, maxEntries, now, lastError,
                 probesFired>>

\* Requests are numbered in the order they arrive.
Receive(r, message, mode) ==
  /\ pc[r] = "idle"
  /\ \A q \in Requests : q < r => pc[q] # "idle"
  /\ LET out == BeginPOST(message, mode, CacheState, status, names,
                          nodeEnv, now)
     IN /\ pc' = [pc EXCEPT ![r] = out.pc]
        /\ req' = [req EXCEPT ![r] = [message |-> message, mode |-> mode]]
        /\ cache' = out.cs.cache
        /\ hitCount' = out.cs.hitCount
        /\ missCount' = out.cs.missCount
        /\ currentProvider' = [currentProvider EXCEPT ![r] = out.currentProvider]
        /\ attemptCount' = [attemptCount EXCEPT ![r] = out.attemptCount]
        /\ response' = [response EXCEPT ![r] = out.response]
        /\ dispatched' = [dispatched EXCEPT ![r] =
                            IF out.pc = "Dispatching"
                            THEN <<out.currentProvider>> ELSE <<>>]
  /\ UNCHANGED <<configVars, reported, client, registryVars, maxEntries, now, lastError,
                 probesFired>>

\* As AdapterSucceeds, without the call of responseCache.set.
AdapterSucceeds_SkipsCache(r, content) ==
  /\ pc[r] = "Dispatching"
  /\ executeProviderRequest(currentProvider[r]) # "mock"
  /\ LET data == [content |-> content, mode |-> req[r].mode,
                  model |-> executeProviderRequest(currentProvider[r])]
         reg == markProviderAsHealthy(Registry, currentProvider[r], now)
     IN /\ status' = reg.status
        /\ timers' = reg.timers
        /\ response' = [response EXCEPT ![r] = OkResponse(data)]
  /\ pc' = [pc EXCEPT ![r] = "Success"]
  /\ UNCHANGED <<configVars, reported, client, cacheVars, now, req, currentProvider,
                 attemptCount, lastError, dispatched, probesFired>>

\* The awaited adapter returns a response: lines 71-77.
AdapterSucceeds(r, content) ==
  /\ pc[r] = "Dispatching"
  /\ executeProviderRequest(currentProvider[r]) # "mock"
  /\ LET data == [content |-> content, mode |-> req[r].mode,
                  model |-> executeProviderRequest(currentProvider[r])]
         reg == markProviderAsHealthy(Registry, currentProvider[r], now)
         cs == set(CacheState, maxEntries, req[r].message, req[r].mode, data,
                   currentProvider[r], 0, now)
     IN /\ status' = reg.status
        /\ timers' = reg.timers
        /\ cache' = cs.cache
        /\ hitCount' = cs.hitCount
        /\ missCount' = cs.missCount
        /\ response' = [response EXCEPT ![r] = OkResponse(data)]
  /\ pc' = [pc EXCEPT ![r] = "Success"]
  /\ UNCHANGED <<configVars, reported, client, maxEntries, now, req, currentProvider,
                 attemptCount, lastError, dispatched, probesFired>>

\* As Fails, storing the error in the cache as the answer to the request.
Fails_CachesError(r, error) ==
  /\ pc[r] = "Dispatching"
  /\ LET out == AfterFailure(currentProvider[r], attemptCount[r], error,
                             Registry, names, nodeEnv, now)
         cs == set(CacheState, maxEntries, req[r].message, req[r].mode,
                   [content |-> error, mode |-> req[r].mode, model |-> "error"],
                   currentProvider[r], 0, now)
     IN /\ pc' = [pc EXCEPT ![r] = out.pc]
        /\ status' = out.reg.status
        /\ timers' = out.reg.timers
        /\ cache' = cs.cache
        /\ hitCount' = cs.hitCount
        /\ missCount' = cs.missCount
        /\ currentProvider' = [currentProvider EXCEPT ![r] = out.currentProvider]
        /\ attemptCount' = [attemptCount EXCEPT ![r] = out.attemptCount]
        /\ response' = [response EXCEPT ![r] = out.response]
        /\ dispatched' = [dispatched EXCEPT ![r] =
                            IF out.pc = "Dispatching"
                            THEN Append(@, out.currentProvider) ELSE @]
  /\ lastError' = [lastError EXCEPT ![r] = error]
  /\ UNCHANGED <<configVars, reported, client, maxEntries, now, req,
                 probesFired>>

\* The awaited adapter throws: lines 79-102, then the loop's next turn.
Fails(r, error) ==
  /\ pc[r] = "Dispatching"
  /\ LET out == AfterFailure(currentProvider[r], attemptCount[r], error,
                             Registry, names, nodeEnv, now)
     IN /\ pc' = [pc EXCEPT ![r] = out.pc]
        /\ status' = out.reg.status
        /\ timers' = out.reg.timers
        /\ currentProvider' = [currentProvider EXCEPT ![r] = out.currentProvider]
        /\ attemptCount' = [attemptCount EXCEPT ![r] = out.attemptCount]
        /\ response' = [response EXCEPT ![r] = out.response]
        /\ dispatched' = [dispatched EXCEPT ![r] =
                            IF out.pc = "Dispatching"
                            THEN Append(@, out.currentProvider) ELSE @]
  /\ lastError' = [lastError EXCEPT ![r] = error]
  /\ UNCHANGED <<configVars, reported, client, cacheVars, now, req, probesFired>>

AdapterFails(r) ==
  Fails(r, ErrorMessage(executeProviderRequest(currentProvider[r])))

\* A recovery timer armed by markProviderAsUnhealthy fires.  The timers
\* left pending once MaxProbeFirings have fired are those not yet due.
RecoveryFires(p) ==
  /\ timers[p] > 0
  /\ probesFired < MaxProbeFirings
  /\ probesFired' = probesFired + 1
  /\ LET armed == [status |-> status, timers |-> [timers EXCEPT ![p] = @ - 1]]
         reg == attemptProviderRecovery(armed, p, FALSE, now)
     IN /\ status' = reg.status
        /\ timers' = reg.timers
  /\ UNCHANGED <<configVars, reported, client, cacheVars, now, requestVars>>

\* The instants at which the clock is read.
Instants == {0} \cup {DefaultTTL + k : k \in 0..ClockSlack}

Tick(t) ==
  /\ t > now
  /\ now' = t
  /\ UNCHANGED <<configVars, reported, client, registryVars, cacheVars, requestVars, probesFired>>

(***************************************************************************)
(* The client: AIService.sendMessage and makeRequestWithRetry.             *)
(***************************************************************************)
MAX_RETRIES == 3
RETRY_DELAY == 1000

\* The error texts of the chat endpoint's responses (route.ts:35, 42, 127, 149).
TextEmptyMessage ==
  <<"C_s", "c_o", "c_o", "c_b", "c_shch", "c_e", "c_n", "c_i", "c_e", " ",
    "c_n", "c_e", " ", "c_m", "c_o", "c_zh", "c_e", "c_t", " ", "c_b",
    "c_y", "c_t", "c_soft", " ", "c_p", "c_u", "c_s", "c_t", "c_y", "c_m">>

TextInvalidMode ==
  <<"C_n", "c_e", "c_v", "c_e", "c_r", "c_n", "c_y", "c_j", " ", "c_r",
    "c_e", "c_zh", "c_i", "c_m", ".", " ", "C_i", "c_s", "c_p", "c_o",
    "c_l", "c_soft", "c_z", "c_u", "c_j", "c_t", "c_e", " ", "\"", "f",
    "a", "s", "t", "\"", " ", "c_i", "c_l", "c_i", " ", "\"", "d", "e",
    "e", "p", "\"">>

TextAllProvidersUnavailable ==
  <<"C_v", "c_s", "c_e", " ", "A", "I", " ", "c_p", "c_r", "c_o", "c_v",
    "c_a", "c_j", "c_d", "c_e", "c_r", "c_y", " ", "c_n", "c_e", "c_d",
    "c_o", "c_s", "c_t", "c_u", "c_p", "c_n", "c_y">>

TextRequestProcessingError ==
  <<"C_p", "c_r", "c_o", "c_i", "c_z", "c_o", "c_sh", "c_l", "c_a", " ",
    "c_o", "c_sh", "c_i", "c_b", "c_k", "c_a", " ", "c_p", "c_r", "c_i",
    " ", "c_o", "c_b", "c_r", "c_a", "c_b", "c_o", "c_t", "c_k", "c_e",
    " ", "c_z", "c_a", "c_p", "c_r", "c_o", "c_s", "c_a">>

\* The messages of the TypeError fetch rejects with, in Chromium and in WebKit.
TextFailedToFetch ==
  <<"F", "a", "i", "l", "e", "d", " ", "t", "o", " ", "f", "e", "t", "c",
    "h">>

TextLoadFailed ==
  <<"L", "o", "a", "d", " ", "f", "a", "i", "l", "e", "d">>

TextHTTP ==
  <<"H", "T", "T", "P", " ">>

\* response.statusText of HTTP/1.1 answers.
TextBadGateway ==
  <<"B", "a", "d", " ", "G", "a", "t", "e", "w", "a", "y">>

TextGatewayTimeout ==
  <<"G", "a", "t", "e", "w", "a", "y", " ", "T", "i", "m", "e", "o", "u",
    "t">>

\* The text of the error field of the endpoint's response.
ErrorText(error) ==
  CASE error = "EmptyMessage" -> TextEmptyMessage
    [] error = "InvalidMode" -> TextInvalidMode
    [] error = "AllProvidersUnavailable" -> TextAllProvidersUnavailable
    [] error = "RequestProcessingError" -> TextRequestProcessingError
    [] OTHER -> <<>>

StatusText(httpStatus) ==
  CASE httpStatus = 502 -> TextBadGateway
    [] httpStatus = 504 -> TextGatewayTimeout
    [] OTHER -> <<>>

\* `${response.status}` for a status of three digits.
DecimalText(httpStatus) ==
  << DigitChars[(httpStatus \div 100) + 1],
     DigitChars[((httpStatus \div 10) % 10) + 1],
     DigitChars[(httpStatus % 10) + 1] >>

\* errorData.error || `HTTP ${response.status}: ${response.statusText}`;
\* bodyError is <<>> when the body has no error field or is not JSON.
HttpErrorMessage(httpStatus, bodyError) ==
  IF bodyError # <<>> THEN bodyError
  ELSE TextHTTP \o DecimalText(httpStatus) \o <<":", " ">> \o StatusText(httpStatus)

\* String.prototype.includes
Includes(text, needle) ==
  \E i \in 1..(Len(text) - Len(needle) + 1) :
    SubSeq(text, i, i + Len(needle) - 1) = needle

RetryableMarks ==
  { <<"f", "e", "t", "c", "h">>,
    <<"n", "e", "t", "w", "o", "r", "k">>,
    <<"t", "i", "m", "e", "o", "u", "t">>,
    <<"5", "0", "0">>, <<"5", "0", "2">>, <<"5", "0", "3">>, <<"5", "0", "4">> }

isRetryableError(message) == \E mark \in RetryableMarks : Includes(message, mark)

\* No call of sendMessage is in progress.  slot is the request of the
\* endpoint that carries the current fetch, 0 before it has arrived;
\* waited and last are history: the delays waited, and the status and the
\* error message the latest fetch ended with.
NoAnswer == [status |-> 0, message |-> <<>>]

NoCall ==
  [pc |-> "idle", request |-> NoRequest, attempt |-> 0, slot |-> 0,
   waited |-> <<>>, last |-> NoAnswer, result |-> None]

sendMessage(message, mode) ==
  [pc |-> "Fetching", request |-> [message |-> Trim(message), mode |-> mode],
   attempt |-> 1, slot |-> 0, waited |-> <<>>, last |-> NoAnswer,
   result |-> None]

\* return result
Resolved(c, data) ==
  [c EXCEPT !.pc = "Returned", !.slot = 0, !.result = Some(data),
            !.last = [status |-> 200, message |-> <<>>]]

\* As Caught, with > for >= in the test of the last attempt.
Caught_OneMoreAttempt(c, httpStatus, message) ==
  IF c.attempt > MAX_RETRIES \/ ~isRetryableError(message)
  THEN [c EXCEPT !.pc = "Threw", !.slot = 0, !.result = Some(message),
                 !.last = [status |-> httpStatus, message |-> message]]
  ELSE [c EXCEPT !.pc = "Waiting", !.slot = 0,
                 !.last = [status |-> httpStatus, message |-> message]]

\* The catch block up to its throw or its await of the delay; httpStatus is 0
\* when fetch itself rejected.
Caught(c, httpStatus, message) ==
  IF c.attempt >= MAX_RETRIES \/ ~isRetryableError(message)
  THEN [c EXCEPT !.pc = "Threw", !.slot = 0, !.result = Some(message),
                 !.last = [status |-> httpStatus, message |-> message]]
  ELSE [c EXCEPT !.pc = "Waiting", !.slot = 0,
                 !.last = [status |-> httpStatus, message |-> message]]

\* The delay is over: makeRequestWithRetry(request, attempt + 1).
Retried(c) ==
  [c EXCEPT !.pc = "Fetching", !.attempt = @ + 1,
            !.waited = Append(@, RETRY_DELAY * (2 ^ (c.attempt - 1)))]

MaxEntriesDefault == 1000

\* The process after its modules are loaded: the registry constructed from
\* configs, the cache constructed and warmed up, none of the requests it
\* will receive has arrived yet.
StartedWithLimit(configs, count, limit) ==
  /\ names = [i \in 1..Len(configs) |-> configs[i].name]
  /\ providers = InitialProviders(configs)
  /\ status = InitialStatus(configs, 0)
  /\ fallbackOrder = InitialFallbackOrder(configs)
  /\ timers = [n \in DOMAIN InitialProviders(configs) |-> 0]
  /\ maxEntries = limit
  /\ LET cs == warmup([cache |-> <<>>, hitCount |-> 0, missCount |-> 0],
                      limit, 0)
     IN /\ cache = cs.cache
        /\ hitCount = cs.hitCount
        /\ missCount = cs.missCount
  /\ now = 0
  /\ pc = [r \in 1..count |-> "idle"]
  /\ req = [r \in 1..count |-> NoRequest]
  /\ currentProvider = [r \in 1..count |-> Null]
  /\ attemptCount = [r \in 1..count |-> 0]
  /\ lastError = [r \in 1..count |-> Null]
  /\ response = [r \in 1..count |-> NoResponse]
  /\ dispatched = [r \in 1..count |-> <<>>]
  /\ probesFired = 0
  /\ reported = 0
  /\ client = NoCall

Started(configs, count) == StartedWithLimit(configs, count, MaxEntriesDefault)

Init ==
  /\ env \in Environments
  /\ nodeEnv \in {"development", "production"}
  /\ Started(Configs(env), NumRequests)

Next ==
  \/ \E r \in Requests, b \in Bodies : Receive(r, b.message, b.mode)
  \/ \E r \in Requests, c \in Contents : AdapterSucceeds(r, c)
  \/ \E r \in Requests : AdapterFails(r)
  \/ \E p \in DOMAIN timers : RecoveryFires(p)
  \/ \E t \in Instants : Tick(t)

Spec == Init /\ [][Next]_vars

(***************************************************************************)
(* Scenario A of the specification: a registry constructed from two        *)
(* configs only, X = together (maxRetries 2) and Y = ollama                *)
(* (maxRetries 1), so that fallbackOrder = <<X, Y>>.                       *)
(***************************************************************************)
ScenarioX == "together"
ScenarioY == "ollama"

ScenarioAConfigs ==
  SelectSeq(Configs({"TOGETHER_API_KEY"}),
            LAMBDA c : c.name \in {ScenarioX, ScenarioY})

InitScenarioA ==
  /\ env = {"TOGETHER_API_KEY"}
  /\ nodeEnv \in {"development", "production"}
  /\ Started(ScenarioAConfigs, NumRequests)

SpecScenarioA == InitScenarioA /\ [][Next]_vars

(***************************************************************************)
(* Cache failures.  ResponseCache itself throws nothing; the actions below *)
(* let a call of responseCache.get or responseCache.set made by POST throw *)
(* before it has changed the cache, to see what POST does with it.         *)
(***************************************************************************)
CacheErrorMessage == "CacheError"

\* The outer catch of POST: the 500 response.
InternalErrorResponse(st, order, message, mode) ==
  [status |-> 500,
   error |-> "RequestProcessingError",
   content |-> None,
   diagnostics |->
     IF mode = "development"
     THEN Some([availableProviders |->
                  LET all == getProvidersStatus(st, order)
                  IN [i \in 1..Len(all) |->
                        [name |-> all[i].name, healthy |-> all[i].isHealthy,
                         error |-> all[i].lastError]],
                lastError |-> message])
     ELSE None]

\* responseCache.get (line 48) throws: the outer catch answers.
ReceiveCacheThrows(r, message, mode) ==
  /\ pc[r] = "idle"
  /\ \A q \in Requests : q < r => pc[q] # "idle"
  /\ ~MessageIsEmpty(message)
  /\ ModeIsValid(mode)
  /\ pc' = [pc EXCEPT ![r] = "InternalError"]
  /\ req' = [req EXCEPT ![r] = [message |-> message, mode |-> mode]]
  /\ response' = [response EXCEPT ![r] =
                    InternalErrorResponse(status, names, CacheErrorMessage, nodeEnv)]
  /\ UNCHANGED <<configVars, reported, client, registryVars, cacheVars, now, currentProvider,
                 attemptCount, lastError, dispatched, probesFired>>

\* The adapter returns a response, markProviderAsHealthy runs (line 71) and
\* responseCache.set (line 74) throws: the loop's catch block takes it.
AdapterSucceedsCacheThrows(r) ==
  /\ pc[r] = "Dispatching"
  /\ executeProviderRequest(currentProvider[r]) # "mock"
  /\ LET reg == markProviderAsHealthy(Registry, currentProvider[r], now)
         out == AfterFailure(currentProvider[r], attemptCount[r],
                             CacheErrorMessage, reg, names, nodeEnv, now)
     IN /\ pc' = [pc EXCEPT ![r] = out.pc]
        /\ status' = out.reg.status
        /\ timers' = out.reg.timers
        /\ currentProvider' = [currentProvider EXCEPT ![r] = out.currentProvider]
        /\ attemptCount' = [attemptCount EXCEPT ![r] = out.attemptCount]
        /\ response' = [response EXCEPT ![r] = out.response]
        /\ dispatched' = [dispatched EXCEPT ![r] =
                            IF out.pc = "Dispatching"
                            THEN Append(@, out.currentProvider) ELSE @]
  /\ lastError' = [lastError EXCEPT ![r] = CacheErrorMessage]
  /\ UNCHANGED <<configVars, reported, client, cacheVars, now, req, probesFired>>

InitOneRequest ==
  /\ env \in Environments
  /\ nodeEnv \in {"development", "production"}
  /\ Started(Configs(env), 1)

NextCacheFault ==
  \/ Next
  \/ \E r \in Requests, b \in Bodies : ReceiveCacheThrows(r, b.message, b.mode)
  \/ \E r \in Requests : AdapterSucceedsCacheThrows(r)

SpecCacheFault == InitOneRequest /\ [][NextCacheFault]_vars

(***************************************************************************)
(* The cache as a module other code may call: responseCache.set called     *)
(* directly, with the provider and the ttl given or left out.              *)
(***************************************************************************)
DirectData == [content |-> "direct", mode |-> "fast", model |-> "direct"]

DirectCalls ==
  { [message |-> MsgHeyShouted, mode |-> "fast", provider |-> Undefined, ttl |-> 0],
    [message |-> MsgHey, mode |-> "fast", provider |-> "huggingface", ttl |-> 1] }

DirectSet(c) ==
  /\ LET cs == set(CacheState, maxEntries, c.message, c.mode, DirectData,
                   c.provider, c.ttl, now)
     IN /\ cache' = cs.cache
        /\ hitCount' = cs.hitCount
        /\ missCount' = cs.missCount
  /\ UNCHANGED <<configVars, reported, client, registryVars, maxEntries, now, requestVars,
                 probesFired>>

NextDirect ==
  \/ Next
  \/ \E c \in DirectCalls : DirectSet(c)

SpecDirect == InitOneRequest /\ [][NextDirect]_vars

(***************************************************************************)
(* Recovery.  Every timer armed by markProviderAsUnhealthy is a setTimeout *)
(* of 10 or 30 seconds, so each of them fires in the end, however many      *)
(* have fired before; the clock advances; an adapter may never answer.     *)
(***************************************************************************)
AllNames == {"groq", "huggingface", "together", "cohere", "ollama", "mock"}

RecoveryDue(p) ==
  /\ p \in DOMAIN timers
  /\ timers[p] > 0
  /\ LET armed == [status |-> status, timers |-> [timers EXCEPT ![p] = @ - 1]]
         reg == attemptProviderRecovery(armed, p, FALSE, now)
     IN /\ status' = reg.status
        /\ timers' = reg.timers
  /\ UNCHANGED <<configVars, reported, client, cacheVars, now, requestVars, probesFired>>

ClockAdvances == \E t \in Instants : Tick(t)

NextRecovery ==
  \/ \E r \in Requests, b \in Bodies : Receive(r, b.message, b.mode)
  \/ \E r \in Requests, c \in Contents : AdapterSucceeds(r, c)
  \/ \E r \in Requests : AdapterFails(r)
  \/ \E p \in AllNames : RecoveryDue(p)
  \/ ClockAdvances

SpecRecovery ==
  /\ InitOneRequest
  /\ [][NextRecovery]_vars
  /\ \A p \in AllNames : WF_vars(RecoveryDue(p))
  /\ WF_vars(ClockAdvances)

(***************************************************************************)
(* The registry under every combination of the API keys read by            *)
(* initializeProviders.                                                    *)
(***************************************************************************)
InitAllEnvs ==
  /\ env \in SUBSET EnvKeys
  /\ nodeEnv \in {"development", "production"}
  /\ Started(Configs(env), 1)

SpecAllEnvs == InitAllEnvs /\ [][Next]_vars

(***************************************************************************)
(* A registry of three providers: with TOGETHER_API_KEY set,               *)
(* fallbackOrder = <<huggingface, together, ollama>>.  The requests all    *)
(* carry the same valid body and the clock stands still, which leaves the  *)
(* retry loops, the health reports and the recovery timers.                *)
(***************************************************************************)
InitThreeProviders ==
  /\ env = {"TOGETHER_API_KEY"}
  /\ nodeEnv = "production"
  /\ Started(Configs(env), NumRequests)

NextThreeProviders ==
  \/ \E r \in Requests : Receive(r, MsgHey, "fast")
  \/ \E r \in Requests, c \in Contents : AdapterSucceeds(r, c)
  \/ \E r \in Requests : AdapterFails(r)
  \/ \E p \in DOMAIN timers : RecoveryFires(p)

SpecThreeProviders == InitThreeProviders /\ [][NextThreeProviders]_vars

(***************************************************************************)
(* The cache at its limit.  The limit of 1000 entries is scaled down to    *)
(* SmallMaxEntries, which the four warm-up entries already fill, so that   *)
(* every later set of a new key runs cleanup.  The eviction removes        *)
(* floor(size / 4) entries: it removes at least one from a limit of 4 on.  *)
(***************************************************************************)
SmallMaxEntries == 4

InitSmallCache ==
  /\ env \in Environments
  /\ nodeEnv \in {"development", "production"}
  /\ StartedWithLimit(Configs(env), 1, SmallMaxEntries)

SpecSmallCache == InitSmallCache /\ [][NextDirect]_vars

(***************************************************************************)
(* Expiry.  responseCache.set called without a provider, with the default  *)
(* TTL and with a TTL of 1 ms, for the key POST looks "hey" up under; the  *)
(* clock's instants put a lookup before, at and after expiresAt.           *)
(***************************************************************************)
TimedCalls ==
  { [message |-> MsgHeyShouted, mode |-> "fast", provider |-> Undefined, ttl |-> 0],
    [message |-> MsgHey, mode |-> "fast", provider |-> Undefined, ttl |-> 1] }

NextExpiry ==
  \/ Next
  \/ \E c \in TimedCalls : DirectSet(c)

SpecExpiry == InitOneRequest /\ [][NextExpiry]_vars

(***************************************************************************)
(* responseCache.set called with the ttl omitted, positive and negative    *)
(* (ttl is typed number; -1 is truthy, so ttl || defaultTTL keeps it).     *)
(***************************************************************************)
AnyTTLCalls ==
  { [message |-> MsgHey, mode |-> "fast", provider |-> Undefined, ttl |-> t] :
      t \in {0, 1, -1} }

NextAnyTTL ==
  \/ Next
  \/ \E c \in AnyTTLCalls : DirectSet(c)

SpecAnyTTL == InitOneRequest /\ [][NextAnyTTL]_vars

(***************************************************************************)
(* Messages that are not to be cached: too short, too long, holding a      *)
(* time stamp, holding a personal word.  "hi " is long enough to be        *)
(* cached and its key is that of "hi".                                     *)
(***************************************************************************)
MsgLong == [i \in 1..(MaxMessageLength + 1) |-> "a"]

UncacheableBodies ==
  { [message |-> MsgHi, mode |-> "fast"],
    [message |-> MsgMoj, mode |-> "fast"],
    [message |-> MsgStamp, mode |-> "deep"],
    [message |-> MsgLong, mode |-> "fast"] }

UncacheableCalls ==
  { [message |-> MsgHiPadded, mode |-> "fast", provider |-> Undefined, ttl |-> 0],
    [message |-> MsgHi, mode |-> "fast", provider |-> Undefined, ttl |-> 0],
    [message |-> MsgMoj, mode |-> "fast", provider |-> Undefined, ttl |-> 0],
    [message |-> MsgStamp, mode |-> "deep", provider |-> "huggingface", ttl |-> 0],
    [message |-> MsgLong, mode |-> "fast", provider |-> Undefined, ttl |-> 1] }

NextUncacheable ==
  \/ Next
  \/ \E r \in Requests, b \in UncacheableBodies : Receive(r, b.message, b.mode)
  \/ \E c \in UncacheableCalls : DirectSet(c)

SpecUncacheable == InitOneRequest /\ [][NextUncacheable]_vars

(***************************************************************************)
(* Lookups by POST of messages whose key strings meet those of other       *)
(* messages, modes and scopes stored by responseCache.set.  No recovery    *)
(* timer fires.                                                            *)
(***************************************************************************)
CollideCalls ==
  { [message |-> MsgQuestions, mode |-> "fast", provider |-> Undefined, ttl |-> 0],
    [message |-> MsgClick, mode |-> "deep", provider |-> "huggingface", ttl |-> 0] }

NextCollide ==
  \/ \E r \in Requests, m \in {MsgClick, MsgHey} : Receive(r, m, "fast")
  \/ \E r \in Requests, c \in Contents : AdapterSucceeds(r, c)
  \/ \E r \in Requests : AdapterFails(r)
  \/ \E c \in CollideCalls : DirectSet(c)
  \/ \E t \in Instants : Tick(t)

SpecCollide == InitOneRequest /\ [][NextCollide]_vars

(***************************************************************************)
(* The earlier revision of the registry, kept in provider-manager.ts: its  *)
(* thresholds are 3, 3, 2, 2, 1, 1; markProviderAsUnhealthy arms a         *)
(* recovery timer only when the threshold is reached; the timer lowers     *)
(* the count by one and arms nothing.  The delays of 2 and 10 minutes are  *)
(* left out: an armed timer fires at some later step.                      *)
(***************************************************************************)
MaxEarlierReports == 5

EarlierConfigs(e) ==
  << [name |-> "groq", priority |-> 1, enabled |-> "GROQ_API_KEY" \in e,
      maxRetries |-> 3, timeout |-> 30000, healthCheck |-> FALSE],
     [name |-> "huggingface", priority |-> 2, enabled |-> TRUE,
      maxRetries |-> 3, timeout |-> 60000, healthCheck |-> FALSE],
     [name |-> "together", priority |-> 3, enabled |-> "TOGETHER_API_KEY" \in e,
      maxRetries |-> 2, timeout |-> 45000, healthCheck |-> FALSE],
     [name |-> "cohere", priority |-> 4, enabled |-> "COHERE_API_KEY" \in e,
      maxRetries |-> 2, timeout |-> 30000, healthCheck |-> FALSE],
     [name |-> "ollama", priority |-> 5, enabled |-> TRUE,
      maxRetries |-> 1, timeout |-> 120000, healthCheck |-> FALSE],
     [name |-> "mock", priority |-> 999, enabled |-> FALSE,
      maxRetries |-> 1, timeout |-> 5000, healthCheck |-> FALSE] >>

EarlierMarkProviderAsUnhealthy(reg, providerName, error, t) ==
  IF providerName \in DOMAIN reg.status /\ providerName \in DOMAIN providers
  THEN [status |-> [reg.status EXCEPT ![providerName] =
                      [name |-> @.name,
                       isHealthy |->
                         IF @.consecutiveFailures + 1
                              >= providers[providerName].maxRetries
                         THEN FALSE ELSE @.isHealthy,
                       lastError |-> error,
                       lastCheck |-> t,
                       consecutiveFailures |-> @.consecutiveFailures + 1]],
        timers |-> [reg.timers EXCEPT ![providerName] =
                      IF reg.status[providerName].consecutiveFailures + 1
                           >= providers[providerName].maxRetries
                      THEN @ + 1 ELSE @]]
  ELSE reg

EarlierAttemptProviderRecovery(reg, providerName, checkResult, t) ==
  IF ~(providerName \in DOMAIN providers /\ providers[providerName].enabled)
  THEN reg
  ELSE IF providers[providerName].healthCheck
  THEN IF checkResult THEN markProviderAsHealthy(reg, providerName, t) ELSE reg
  ELSE IF ~(/\ providerName \in DOMAIN reg.status
            /\ reg.status[providerName].consecutiveFailures > 0)
  THEN reg
  ELSE IF Max(0, reg.status[providerName].consecutiveFailures - 1) = 0
  THEN markProviderAsHealthy(reg, providerName, t)
  ELSE [reg EXCEPT !.status[providerName].consecutiveFailures =
                      Max(0, @ - 1)]

\* A dispatch to provider p has failed and its failure is reported.  No
\* more than MaxEarlierReports failures are reported in all, so that every
\* behaviour has a last report.
EarlierFailureReported(p) ==
  /\ reported < MaxEarlierReports
  /\ \E i \in DOMAIN fallbackOrder : fallbackOrder[i] = p
  /\ reported' = reported + 1
  /\ status' = EarlierMarkProviderAsUnhealthy(
                 Registry, p, ErrorMessage(executeProviderRequest(p)),
                 now).status
  /\ timers' = EarlierMarkProviderAsUnhealthy(
                 Registry, p, ErrorMessage(executeProviderRequest(p)),
                 now).timers
  /\ UNCHANGED <<configVars, client, cacheVars, now, requestVars, probesFired>>

\* A recovery timer of provider p fires.
EarlierRecoveryFires(p) ==
  /\ p \in DOMAIN timers
  /\ timers[p] > 0
  /\ status' = EarlierAttemptProviderRecovery(
                 [status |-> status, timers |-> [timers EXCEPT ![p] = @ - 1]],
                 p, FALSE, now).status
  /\ timers' = [timers EXCEPT ![p] = @ - 1]
  /\ UNCHANGED <<configVars, reported, client, cacheVars, now, requestVars, probesFired>>

InitEarlier ==
  /\ env = {"TOGETHER_API_KEY"}
  /\ nodeEnv = "production"
  /\ Started(EarlierConfigs(env), 1)

NextEarlier ==
  \/ \E p \in AllNames : EarlierFailureReported(p)
  \/ \E p \in AllNames : EarlierRecoveryFires(p)

\* The event loop runs the callback of every timer that is due.
SpecEarlier ==
  /\ InitEarlier
  /\ [][NextEarlier]_vars
  /\ \A p \in AllNames : WF_vars(EarlierRecoveryFires(p))

(***************************************************************************)
(* The earlier revision of POST, kept in api/stats/route.ts, over the      *)
(* earlier revision of the registry: getBestAvailableProvider answers      *)
(* 'mock' when no provider is available, the loop runs while               *)
(* currentProvider is set, and the loop's failure is thrown to the outer   *)
(* catch.                                                                  *)
(***************************************************************************)
\* What generateSmartMockResponse writes.
MockContent == "SmartMockAnswer"

EarlierGetBestAvailableProvider(st) ==
  IF \E i \in 1..Len(fallbackOrder) : IsAvailable(st, fallbackOrder[i])
  THEN fallbackOrder[Min({i \in 1..Len(fallbackOrder) :
                            IsAvailable(st, fallbackOrder[i])})]
  ELSE "mock"

\* POST from the request's arrival to its first await of an adapter, or to
\* its response.
EarlierBeginPOST(message, mode, cs, st, t) ==
  IF MessageIsEmpty(message)
  THEN [pc |-> "ValidationError", cs |-> cs, currentProvider |-> Null,
        attemptCount |-> 0, response |-> ValidationResponse("EmptyMessage")]
  ELSE IF ~ModeIsValid(mode)
  THEN [pc |-> "ValidationError", cs |-> cs, currentProvider |-> Null,
        attemptCount |-> 0, response |-> ValidationResponse("InvalidMode")]
  ELSE LET got == get(cs, message, mode, Undefined, t)
           after == [cache |-> got.cache, hitCount |-> got.hitCount,
                     missCount |-> got.missCount]
       IN IF got.result # None
          THEN [pc |-> "CacheHit", cs |-> after, currentProvider |-> Null,
                attemptCount |-> 0, response |-> OkResponse(got.result[1])]
          ELSE [pc |-> "Dispatching", cs |-> after,
                currentProvider |-> EarlierGetBestAvailableProvider(st),
                attemptCount |-> 1, response |-> NoResponse]

\* The catch block of the while loop, then the loop's next turn up to its
\* await, or the throw after the loop and the 500 response.
EarlierAfterFailure(provider, attempts, error, reg, order, nodeMode, t) ==
  LET marked == EarlierMarkProviderAsUnhealthy(reg, provider, error, t)
      next == getNextProvider(marked.status, provider)
  IN IF canRetryWithProvider(marked.status, provider, attempts)
     THEN [pc |-> "Dispatching", reg |-> marked, currentProvider |-> provider,
           attemptCount |-> attempts + 1, response |-> NoResponse]
     ELSE IF next # Null
     THEN [pc |-> "Dispatching", reg |-> marked, currentProvider |-> next,
           attemptCount |-> 1, response |-> NoResponse]
     ELSE [pc |-> "InternalError", reg |-> marked, currentProvider |-> provider,
           attemptCount |-> attempts,
           response |-> InternalErrorResponse(marked.status, order, error,
                                              nodeMode)]

EarlierReceive(r, message, mode) ==
  /\ pc[r] = "idle"
  /\ \A q \in Requests : q < r => pc[q] # "idle"
  /\ LET out == EarlierBeginPOST(message, mode, CacheState, status, now)
     IN /\ pc' = [pc EXCEPT ![r] = out.pc]
        /\ req' = [req EXCEPT ![r] = [message |-> message, mode |-> mode]]
        /\ cache' = out.cs.cache
        /\ hitCount' = out.cs.hitCount
        /\ missCount' = out.cs.missCount
        /\ currentProvider' = [currentProvider EXCEPT ![r] = out.currentProvider]
        /\ attemptCount' = [attemptCount EXCEPT ![r] = out.attemptCount]
        /\ response' = [response EXCEPT ![r] = out.response]
        /\ dispatched' = [dispatched EXCEPT ![r] =
                            IF out.pc = "Dispatching"
                            THEN <<out.currentProvider>> ELSE <<>>]
  /\ UNCHANGED <<configVars, reported, client, registryVars, maxEntries, now, lastError,
                 probesFired>>

\* The awaited adapter returns a response: lines 440-450.
EarlierReturns(r, content) ==
  /\ pc[r] = "Dispatching"
  /\ LET data == [content |-> content, mode |-> req[r].mode,
                  model |-> executeProviderRequest(currentProvider[r])]
         reg == markProviderAsHealthy(Registry, currentProvider[r], now)
         cs == set(CacheState, maxEntries, req[r].message, req[r].mode, data,
                   currentProvider[r], 0, now)
     IN /\ status' = reg.status
        /\ timers' = reg.timers
        /\ cache' = cs.cache
        /\ hitCount' = cs.hitCount
        /\ missCount' = cs.missCount
        /\ response' = [response EXCEPT ![r] = OkResponse(data)]
  /\ pc' = [pc EXCEPT ![r] = "Success"]
  /\ UNCHANGED <<configVars, reported, client, maxEntries, now, req, currentProvider,
                 attemptCount, lastError, dispatched, probesFired>>

EarlierAdapterSucceeds(r, content) ==
  /\ executeProviderRequest(currentProvider[r]) # "mock"
  /\ EarlierReturns(r, content)

\* handleMockRequest throws nothing: a dispatch to 'mock' always answers.
EarlierMockAnswers(r) ==
  /\ executeProviderRequest(currentProvider[r]) = "mock"
  /\ EarlierReturns(r, MockContent)

\* The awaited adapter throws: lines 452-475.
EarlierAdapterFails(r) ==
  /\ pc[r] = "Dispatching"
  /\ executeProviderRequest(currentProvider[r]) # "mock"
  /\ LET out == EarlierAfterFailure(
                  currentProvider[r], attemptCount[r],
                  ErrorMessage(executeProviderRequest(currentProvider[r])),
                  Registry, names, nodeEnv, now)
     IN /\ pc' = [pc EXCEPT ![r] = out.pc]
        /\ status' = out.reg.status
        /\ timers' = out.reg.timers
        /\ currentProvider' = [currentProvider EXCEPT ![r] = out.currentProvider]
        /\ attemptCount' = [attemptCount EXCEPT ![r] = out.attemptCount]
        /\ response' = [response EXCEPT ![r] = out.response]
        /\ dispatched' = [dispatched EXCEPT ![r] =
                            IF out.pc = "Dispatching"
                            THEN Append(@, out.currentProvider) ELSE @]
  /\ lastError' = [lastError EXCEPT ![r] =
                     ErrorMessage(executeProviderRequest(currentProvider[r]))]
  /\ UNCHANGED <<configVars, reported, client, cacheVars, now, req, probesFired>>

InitEarlierPost ==
  /\ env = {}
  /\ nodeEnv = "production"
  /\ Started(EarlierConfigs(env), NumRequests)

NextEarlierPost ==
  \/ \E r \in Requests : EarlierReceive(r, MsgHey, "fast")
  \/ \E r \in Requests, c \in Contents : EarlierAdapterSucceeds(r, c)
  \/ \E r \in Requests : EarlierMockAnswers(r)
  \/ \E r \in Requests : EarlierAdapterFails(r)
  \/ \E p \in AllNames : EarlierRecoveryFires(p)

SpecEarlierPost == InitEarlierPost /\ [][NextEarlierPost]_vars

(***************************************************************************)
(* The questions of warmup asked through POST.                             *)
(***************************************************************************)
SeededBodies ==
  { [message |-> CommonQueries[n].message, mode |-> CommonQueries[n].mode] :
      n \in 1..Len(CommonQueries) }

NextSeeded ==
  \/ Next
  \/ \E r \in Requests, b \in SeededBodies : Receive(r, b.message, b.mode)

SpecSeeded == InitOneRequest /\ [][NextSeeded]_vars

(***************************************************************************)
(* The client in front of the endpoint.  One call of sendMessage; each of  *)
(* its fetches arrives as a request of POST or is lost; the fetch ends     *)
(* with the response of POST, with the 502 or 504 of a gateway whose body  *)
(* is not JSON, or with a rejection.                                       *)
(***************************************************************************)
ClientMessages == {MsgHey, MsgBlank}

GatewayStatuses == {502, 504}

Rejections == {TextFailedToFetch, TextLoadFailed}

ClientSends(message, mode) ==
  /\ client.pc = "idle"
  /\ client' = sendMessage(message, mode)
  /\ UNCHANGED <<configVars, reported, registryVars, cacheVars, now,
                 requestVars, probesFired>>

\* The fetch of the client arrives: POST up to its first await.
ClientRequestArrives(r) ==
  /\ client.pc = "Fetching"
  /\ client.slot = 0
  /\ pc[r] = "idle"
  /\ \A q \in Requests : q < r => pc[q] # "idle"
  /\ client' = [client EXCEPT !.slot = r]
  /\ LET out == BeginPOST(client.request.message, client.request.mode,
                          CacheState, status, names, nodeEnv, now)
     IN /\ pc' = [pc EXCEPT ![r] = out.pc]
        /\ req' = [req EXCEPT ![r] = client.request]
        /\ cache' = out.cs.cache
        /\ hitCount' = out.cs.hitCount
        /\ missCount' = out.cs.missCount
        /\ currentProvider' = [currentProvider EXCEPT ![r] = out.currentProvider]
        /\ attemptCount' = [attemptCount EXCEPT ![r] = out.attemptCount]
        /\ response' = [response EXCEPT ![r] = out.response]
        /\ dispatched' = [dispatched EXCEPT ![r] =
                            IF out.pc = "Dispatching"
                            THEN <<out.currentProvider>> ELSE <<>>]
  /\ UNCHANGED <<configVars, reported, registryVars, maxEntries, now,
                 lastError, probesFired>>

\* The response of POST reaches the client: lines 42-50, or the catch.
FetchAnswers ==
  /\ client.pc = "Fetching"
  /\ client.slot # 0
  /\ pc[client.slot] \in Terminal
  /\ client' = IF response[client.slot].status = 200
               THEN Resolved(client, response[client.slot].content[1])
               ELSE Caught(client, response[client.slot].status,
                           HttpErrorMessage(response[client.slot].status,
                                            ErrorText(response[client.slot].error)))
  /\ UNCHANGED <<configVars, reported, registryVars, cacheVars, now,
                 requestVars, probesFired>>

GatewayAnswers(gatewayStatus) ==
  /\ client.pc = "Fetching"
  /\ client' = Caught(client, gatewayStatus, HttpErrorMessage(gatewayStatus, <<>>))
  /\ UNCHANGED <<configVars, reported, registryVars, cacheVars, now,
                 requestVars, probesFired>>

FetchRejects(message) ==
  /\ client.pc = "Fetching"
  /\ client' = Caught(client, 0, message)
  /\ UNCHANGED <<configVars, reported, registryVars, cacheVars, now,
                 requestVars, probesFired>>

DelayElapses ==
  /\ client.pc = "Waiting"
  /\ client' = Retried(client)
  /\ UNCHANGED <<configVars, reported, registryVars, cacheVars, now,
                 requestVars, probesFired>>

FetchSettles ==
  \/ FetchAnswers
  \/ \E s \in GatewayStatuses : GatewayAnswers(s)
  \/ \E m \in Rejections : FetchRejects(m)

InitClient ==
  /\ env \in Environments
  /\ nodeEnv = "production"
  /\ Started(Configs(env), MAX_RETRIES)

NextClient ==
  \/ \E m \in ClientMessages : ClientSends(m, "fast")
  \/ \E r \in Requests : ClientRequestArrives(r)
  \/ \E r \in Requests, c \in Contents : AdapterSucceeds(r, c)
  \/ \E r \in Requests : AdapterFails(r)
  \/ FetchSettles
  \/ DelayElapses

\* A fetch ends: with the response, or with the error the browser or the
\* platform ends a fetch with that has had no response.  A timer of
\* setTimeout fires.
SpecClient ==
  /\ InitClient
  /\ [][NextClient]_vars
  /\ WF_vars(FetchSettles)
  /\ WF_vars(DelayElapses)

(***************************************************************************)
(* Properties.                                                             *)
(***************************************************************************)
Occurrences(s, x) == Cardinality({i \in 1..Len(s) : s[i] = x})

RECURSIVE SumMaxRetries(_)
SumMaxRetries(order) ==
  IF order = <<>> THEN 0
  ELSE providers[Head(order)].maxRetries + SumMaxRetries(Tail(order))

OnlyWhitespace(message) == \A i \in 1..Len(message) : message[i] \in Whitespace

AllUnhealthy == \A i \in 1..Len(fallbackOrder) : ~status[fallbackOrder[i]].isHealthy

\* The key POST looks a body up under: responseCache.get(message, mode).
LookupKey(body) == generateCacheKey(body.message, body.mode, Undefined)

\* C1: a request never makes more dispatches than the sum of maxRetries over
\* fallbackOrder, nor more than maxRetries(p) to any provider p, and it
\* dispatches only to providers of fallbackOrder; so each return of an
\* adapter leaves it a bounded number of dispatches from its response.
C1_DispatchesBounded ==
  \A r \in Requests :
    /\ Len(dispatched[r]) <= SumMaxRetries(fallbackOrder)
    /\ \A i \in 1..Len(dispatched[r]) :
         /\ dispatched[r][i] \in Range(fallbackOrder)
         /\ Occurrences(dispatched[r], dispatched[r][i])
              <= providers[dispatched[r][i]].maxRetries

C1_Witness ==
  \E r \in Requests :
    /\ pc[r] = "ExhaustedFailure"
    /\ Len(dispatched[r]) = SumMaxRetries(fallbackOrder)

\* C2 (as claimed): a request arriving while the cache holds an unexpired
\* answer that POST stored for the same normalised message and mode is
\* answered from the cache, with that payload, and counts as a hit.
C2_RepeatServedFromCache ==
  [][\A r \in Requests :
       (/\ pc[r] = "idle"
        /\ pc'[r] # "idle"
        /\ \E i \in 1..Len(cache), p \in Range(fallbackOrder) :
             /\ cache[i].key = generateCacheKey(req'[r].message, req'[r].mode, p)
             /\ ~(now > cache[i].expiresAt))
       => /\ pc'[r] = "CacheHit"
          /\ hitCount' = hitCount + 1
          /\ \E i \in 1..Len(cache), p \in Range(fallbackOrder) \cup {Undefined} :
               /\ cache[i].key = generateCacheKey(req'[r].message, req'[r].mode, p)
               /\ response'[r].content = Some(cache[i].data)]_vars

\* C3: in Scenario A, a request that ran alone (the other requests have not
\* arrived, no recovery timer has fired) and ended in ExhaustedFailure has
\* dispatched to X, X, Y in this order, and X and Y are both unhealthy.
C3_ScenarioA ==
  \A r \in Requests :
    (/\ pc[r] = "ExhaustedFailure"
     /\ \A q \in Requests \ {r} : pc[q] = "idle"
     /\ probesFired = 0)
    => /\ dispatched[r] = <<ScenarioX, ScenarioX, ScenarioY>>
       /\ ~status[ScenarioX].isHealthy
       /\ ~status[ScenarioY].isHealthy
       /\ status[ScenarioX].consecutiveFailures = 2
       /\ status[ScenarioY].consecutiveFailures = 1

C3_Witness ==
  \E r \in Requests :
    /\ pc[r] = "ExhaustedFailure"
    /\ \A q \in Requests \ {r} : pc[q] = "idle"
    /\ probesFired = 0
    /\ fallbackOrder = <<ScenarioX, ScenarioY>>

\* C4: a valid request that misses the cache while every provider of
\* fallbackOrder is unhealthy ends at once with the 503 "all providers
\* unavailable" error: no dispatch, no change of any health record or timer,
\* no cache entry added or changed, no content in the response.
C4_NoProviderFailsFast ==
  [][\A r \in Requests :
       (/\ pc[r] = "idle"
        /\ pc'[r] \notin {"idle", "ValidationError", "CacheHit"}
        /\ AllUnhealthy)
       => /\ pc'[r] = "NoProviders"
          /\ dispatched'[r] = <<>>
          /\ status' = status
          /\ timers' = timers
          /\ \A i \in 1..Len(cache') : \E j \in 1..Len(cache) : cache'[i] = cache[j]
          /\ response'[r].status = 503
          /\ response'[r].error = "AllProvidersUnavailable"
          /\ response'[r].content = None]_vars

C4_Witness ==
  \E r \in Requests :
    /\ pc[r] = "NoProviders"
    /\ AllUnhealthy
    /\ dispatched[r] = <<>>

\* C5: a request whose message is empty or only whitespace, or whose mode
\* is neither fast nor deep, is answered 400 at once: no dispatch, and the
\* health records, the timers, the cache entries and both counters stay as
\* they were.
C5_InvalidInputRejected ==
  [][\A r \in Requests :
       (/\ pc[r] = "idle"
        /\ pc'[r] # "idle"
        /\ \/ OnlyWhitespace(req'[r].message)
           \/ req'[r].mode \notin {"fast", "deep"})
       => /\ pc'[r] = "ValidationError"
          /\ response'[r].status = 400
          /\ response'[r].content = None
          /\ dispatched'[r] = <<>>
          /\ currentProvider'[r] = Null
          /\ UNCHANGED <<status, timers, cache, hitCount, missCount>>]_vars

C5_Witness ==
  \E r, q \in Requests :
    /\ pc[r] = "ValidationError"
    /\ req[r].message = MsgBlank
    /\ pc[q] = "ValidationError"
    /\ req[q].mode = "turbo"

\* C6: a valid request arriving while the cache holds an unexpired entry
\* under its lookup key is answered 200 with that entry's payload, without
\* any dispatch and without any change of a health record or timer.
C6_HitSkipsDispatch ==
  [][\A r \in Requests :
       (/\ pc[r] = "idle"
        /\ pc'[r] # "idle"
        /\ ~OnlyWhitespace(req'[r].message)
        /\ req'[r].mode \in {"fast", "deep"}
        /\ shouldCache(req'[r].message, req'[r].mode)
        /\ \E i \in 1..Len(cache) :
             /\ cache[i].key = LookupKey(req'[r])
             /\ ~(now > cache[i].expiresAt))
       => /\ pc'[r] = "CacheHit"
          /\ response'[r].status = 200
          /\ \E i \in 1..Len(cache) :
               /\ cache[i].key = LookupKey(req'[r])
               /\ response'[r].content = Some(cache[i].data)
          /\ dispatched'[r] = <<>>
          /\ currentProvider'[r] = Null
          /\ UNCHANGED <<status, timers>>]_vars

C6_Witness ==
  \E r \in Requests :
    /\ pc[r] = "CacheHit"
    /\ response[r].content = Some(DirectData)
    /\ req[r].message = MsgHey

\* The adapter error of the last dispatch a request made.
LastDispatchError(r) ==
  ErrorMessage(executeProviderRequest(dispatched[r][Len(dispatched[r])]))

\* C7 (as claimed): a request that ended in ExhaustedFailure returned an
\* error without content that carries the last provider error and a health
\* snapshot of every provider.
C7_ExhaustedCarriesDiagnostics ==
  \A r \in Requests :
    pc[r] = "ExhaustedFailure"
    => /\ response[r].status = 503
       /\ response[r].content = None
       /\ response[r].diagnostics # None
       /\ response[r].diagnostics[1].lastError = LastDispatchError(r)
       /\ {response[r].diagnostics[1].availableProviders[i].name :
             i \in 1..Len(response[r].diagnostics[1].availableProviders)}
            = DOMAIN status

\* C7 (amended): a request that ended in ExhaustedFailure returned the 503
\* error without content; when NODE_ENV is development the response carries
\* the message of the last provider error and one snapshot entry for every
\* registered provider, otherwise it carries no diagnostics at all.
C7_ExhaustedDiagnosticsInDevelopment ==
  \A r \in Requests :
    pc[r] = "ExhaustedFailure"
    => /\ response[r].status = 503
       /\ response[r].error = "AllProvidersUnavailable"
       /\ response[r].content = None
       /\ IF nodeEnv = "development"
          THEN /\ response[r].diagnostics # None
               /\ response[r].diagnostics[1].lastError = LastDispatchError(r)
               /\ {response[r].diagnostics[1].availableProviders[i].name :
                     i \in 1..Len(response[r].diagnostics[1].availableProviders)}
                    = DOMAIN status
               /\ Len(response[r].diagnostics[1].availableProviders)
                    = Cardinality(DOMAIN status)
          ELSE response[r].diagnostics = None

C7_Witness ==
  \E r, q \in Requests :
    /\ pc[r] = "ExhaustedFailure"
    /\ nodeEnv = "development"
    /\ Len(dispatched[r]) > 1
    /\ response[r].diagnostics # None
    /\ pc[q] = "ExhaustedFailure"
    /\ dispatched[q][Len(dispatched[q])] # dispatched[r][Len(dispatched[r])]

C9_AbandonedProviderIsUnhealthy ==
  [][\A r \in Requests :
       (/\ pc[r] = "Dispatching"
        /\ \/ pc'[r] = "ExhaustedFailure"
           \/ pc'[r] = "Dispatching" /\ currentProvider'[r] # currentProvider[r])
       => ~status'[currentProvider[r]].isHealthy]_vars

\* C10: a provider that a request selects (at its start or when it
\* switches) is healthy at that moment, and isHealthy goes from false to
\* true only when a recovery timer of that provider fires or when a request
\* dispatched to it reports a success.
C10_UnhealthyNeverSelected ==
  [][/\ \A r \in Requests :
          (pc'[r] = "Dispatching" /\ currentProvider'[r] # currentProvider[r])
          => /\ status[currentProvider'[r]].isHealthy
             /\ status'[currentProvider'[r]].isHealthy
     /\ \A p \in DOMAIN status :
          (~status[p].isHealthy /\ status'[p].isHealthy)
          => \/ timers'[p] = timers[p] - 1
             \/ \E r \in Requests :
                  /\ pc[r] = "Dispatching"
                  /\ pc'[r] = "Success"
                  /\ currentProvider[r] = p]_vars

C10_Witness ==
  \E r \in Requests :
    /\ pc[r] = "Dispatching"
    /\ Len(fallbackOrder) > 1
    /\ dispatched[r] = <<fallbackOrder[2]>>
    /\ ~status[fallbackOrder[1]].isHealthy

\* C11: a step in which a failure of provider p is reported (the only step
\* that arms a recovery timer of p) adds exactly 1 to p's
\* consecutiveFailures and records the reported error; consecutiveFailures
\* grows in no other step; and isHealthy goes from true to false only in
\* such a step, and only when the incremented count is >= maxRetries.
C11_FailureCounting ==
  [][\A p \in DOMAIN status :
       /\ timers'[p] = timers[p] + 1
          => /\ status'[p].consecutiveFailures = status[p].consecutiveFailures + 1
             /\ \E r \in Requests :
                  /\ pc[r] = "Dispatching"
                  /\ currentProvider[r] = p
                  /\ status'[p].lastError = lastError'[r]
                  /\ lastError'[r] \notin {Null, Undefined}
       /\ status'[p].consecutiveFailures > status[p].consecutiveFailures
          => timers'[p] = timers[p] + 1
       /\ (status[p].isHealthy /\ ~status'[p].isHealthy)
          => /\ timers'[p] = timers[p] + 1
             /\ status[p].consecutiveFailures + 1 >= providers[p].maxRetries]_vars

C11_Witness ==
  \E p \in DOMAIN status :
    /\ providers[p].maxRetries > 1
    /\ ~status[p].isHealthy
    /\ status[p].consecutiveFailures = providers[p].maxRetries
    /\ status[p].lastError # Undefined

FallbackOrderIsSound ==
  /\ \A i \in 1..Len(fallbackOrder) :
       /\ fallbackOrder[i] \in DOMAIN providers
       /\ providers[fallbackOrder[i]].enabled
  /\ \A n \in DOMAIN providers :
       providers[n].enabled => Occurrences(fallbackOrder, n) = 1
  /\ \A i, j \in 1..Len(fallbackOrder) :
       i < j => providers[fallbackOrder[i]].priority
                  < providers[fallbackOrder[j]].priority
  /\ "mock" \notin Range(fallbackOrder)

\* C13: under every combination of API keys, fallbackOrder holds exactly the
\* enabled providers, each once, in strictly ascending priority, never the
\* disabled mock; and no step changes fallbackOrder or a provider's config.
C13_FallbackOrderFixed ==
  /\ []FallbackOrderIsSound
  /\ [][fallbackOrder' = fallbackOrder /\ providers' = providers]_vars

C13_Witness ==
  /\ env = EnvKeys
  /\ fallbackOrder = <<"groq", "huggingface", "together", "cohere", "ollama">>
  /\ \E r \in Requests : pc[r] = "ExhaustedFailure"
  /\ \E p \in DOMAIN status : ~status[p].isHealthy

\* The first provider of fallbackOrder whose isHealthy is true.
FirstHealthy ==
  IF AllUnhealthy THEN Null
  ELSE fallbackOrder[Min({i \in 1..Len(fallbackOrder) :
                            status[fallbackOrder[i]].isHealthy})]

\* C14: in every state getBestAvailableProvider returns the first provider
\* of fallbackOrder whose isHealthy is true, and null exactly when all are
\* unhealthy; a request that selects its first provider gets that value, and
\* the selection changes no health record and no timer.
C14_BestAvailable ==
  /\ [](getBestAvailableProvider(status) = FirstHealthy)
  /\ [][\A r \in Requests :
          (pc[r] = "idle" /\ pc'[r] \in {"Dispatching", "NoProviders"})
          => /\ currentProvider'[r] = FirstHealthy
             /\ (pc'[r] = "NoProviders") = AllUnhealthy
             /\ status' = status
             /\ timers' = timers]_vars

C14_Witness ==
  \E r \in Requests :
    /\ pc[r] = "Success"
    /\ dispatched[r] = <<fallbackOrder[2]>>
    /\ ~status[fallbackOrder[1]].isHealthy

\* The first provider placed strictly after p in fallbackOrder whose
\* isHealthy is true in st.
NextHealthyAfter(st, p) ==
  LET after == {i \in 1..Len(fallbackOrder) :
                  /\ st[fallbackOrder[i]].isHealthy
                  /\ \E j \in 1..(i - 1) : fallbackOrder[j] = p}
  IN IF after = {} THEN Null ELSE fallbackOrder[Min(after)]

\* C15: in every state, and for every name p (in fallbackOrder or not),
\* getNextProvider(p) is the first healthy provider placed strictly after p,
\* and null when there is none; a request that leaves provider p after a
\* failure moves to that provider, placed after p, and ends in
\* ExhaustedFailure exactly when there is none.
C15_NextProvider ==
  /\ [](\A p \in AllNames \cup {"unknown"} :
          getNextProvider(status, p) = NextHealthyAfter(status, p))
  /\ [][\A r \in Requests :
          /\ (pc[r] = "Dispatching" /\ pc'[r] = "Dispatching"
              /\ currentProvider'[r] # currentProvider[r])
             => /\ currentProvider'[r] = NextHealthyAfter(status', currentProvider[r])
                /\ IndexOf(fallbackOrder, currentProvider'[r])
                     > IndexOf(fallbackOrder, currentProvider[r])
          /\ (pc[r] = "Dispatching" /\ pc'[r] = "ExhaustedFailure")
             => NextHealthyAfter(status', currentProvider[r]) = Null]_vars

C15_Witness ==
  \E r \in Requests :
    /\ Len(fallbackOrder) = 3
    /\ \E i \in 1..(Len(dispatched[r]) - 1) :
         /\ dispatched[r][i] = fallbackOrder[1]
         /\ dispatched[r][i + 1] = fallbackOrder[3]
    /\ ~status[fallbackOrder[2]].isHealthy

\* A health record freshly marked healthy.
IsReset(record) ==
  /\ record.isHealthy
  /\ record.lastError = Undefined
  /\ record.consecutiveFailures = 0

\* C16: markProviderAsHealthy leaves the provider healthy, without lastError
\* and with consecutiveFailures = 0, and touches no other record and no
\* timer; applied a second time, at the same or a later instant, it gives
\* the same registry apart from lastCheck.  The provider a request has
\* succeeded with, and a provider a recovery timer has turned healthy, are
\* in that state.
C16_MarkHealthy ==
  /\ [](\A p \in DOMAIN status :
          LET once == markProviderAsHealthy(Registry, p, now)
              again == markProviderAsHealthy(once, p, now)
              later == markProviderAsHealthy(once, p, now + 1)
          IN /\ IsReset(once.status[p])
             /\ once.timers = timers
             /\ \A q \in DOMAIN status \ {p} : once.status[q] = status[q]
             /\ again = once
             /\ later.timers = once.timers
             /\ \A q \in DOMAIN status :
                  [later.status[q] EXCEPT !.lastCheck = 0]
                    = [once.status[q] EXCEPT !.lastCheck = 0])
  /\ [][/\ \A r \in Requests :
             (pc[r] = "Dispatching" /\ pc'[r] = "Success")
             => IsReset(status'[currentProvider[r]])
        /\ \A p \in DOMAIN status :
             (~status[p].isHealthy /\ status'[p].isHealthy)
             => IsReset(status'[p])]_vars

C16_Witness ==
  \E r \in Requests :
    /\ pc[r] = "Success"
    /\ Len(dispatched[r]) >= 2
    /\ dispatched[r][Len(dispatched[r]) - 1] = currentProvider[r]
    /\ IsReset(status[currentProvider[r]])

\* The dispatches of request r to provider p that have failed: all but the
\* one r is awaiting.
FailedDispatches(r, p) ==
  Occurrences(dispatched[r], p)
    - (IF pc[r] = "Dispatching" /\ currentProvider[r] = p THEN 1 ELSE 0)

RECURSIVE SumFailedDispatches(_, _)
SumFailedDispatches(n, p) ==
  IF n = 0 THEN 0
  ELSE FailedDispatches(n, p) + SumFailedDispatches(n - 1, p)

\* C17: as long as no request has reported a success and no recovery timer
\* has fired, consecutiveFailures of every provider is the number of failed
\* dispatches to it, added up over all the requests, in whatever order the
\* concurrent requests reported them.
C17_NoLostFailureReport ==
  (/\ probesFired = 0
   /\ \A r \in Requests : pc[r] # "Success")
  => \A p \in DOMAIN status :
       status[p].consecutiveFailures = SumFailedDispatches(Len(pc), p)

C17_Witness ==
  \E r, q \in Requests :
    /\ r # q
    /\ probesFired = 0
    /\ pc[r] = "Dispatching"
    /\ pc[q] = "Dispatching"
    /\ currentProvider[r] = currentProvider[q]
    /\ FailedDispatches(r, currentProvider[r]) >= 2
    /\ FailedDispatches(q, currentProvider[r]) >= 1
    /\ status[currentProvider[r]].consecutiveFailures
         = FailedDispatches(r, currentProvider[r])
             + FailedDispatches(q, currentProvider[r])

\* C18: whatever the other requests are awaiting, a request that has not
\* arrived yet can be received with any body (validated, looked up in the
\* cache, given a provider and dispatched), and a request awaiting an
\* adapter can take the adapter's answer or its failure (health report,
\* cache write, next dispatch or response): no step of a request waits for
\* another request's adapter.
C18_AwaitHoldsNothing ==
  \A r \in Requests :
    /\ (pc[r] = "idle" /\ \A q \in Requests : q < r => pc[q] # "idle")
       => \A b \in Bodies : ENABLED Receive(r, b.message, b.mode)
    /\ pc[r] = "Dispatching"
       => /\ ENABLED AdapterFails(r)
          /\ \A c \in Contents : ENABLED AdapterSucceeds(r, c)

C18_Witness ==
  \E r, q \in Requests :
    /\ r < q
    /\ pc[r] = "Dispatching"
    /\ dispatched[r] = <<fallbackOrder[1]>>
    /\ pc[q] = "ExhaustedFailure"
    /\ Len(dispatched[q]) = SumMaxRetries(fallbackOrder)

\* C19 (as claimed): a dispatch is ended by the provider's timeout at the
\* latest, so a request awaiting an adapter always gets its response in the
\* end, even if the adapter never answers (the clock advancing and the
\* timers firing being all that can be relied on).
C19_DispatchEndsByTimeout ==
  \A r \in 1..1 : (pc[r] = "Dispatching") ~> (pc[r] \in Terminal)

\* C20: the cache never holds more entries than its limit: not after
\* warm-up, and not after any set, whatever entries have expired or been
\* read meanwhile.
C20_CacheSizeBounded ==
  /\ [](Len(cache) <= maxEntries)
  /\ [][cache' # cache => Len(cache') <= maxEntries]_vars

C20_Witness ==
  /\ Len(cache) = maxEntries
  /\ maxEntries = SmallMaxEntries
  /\ Cardinality({i \in 1..Len(cache) : cache[i].data.model # "Cache: Prewarmed"}) >= 2
  /\ \E i \in 1..Len(cache) : cache[i].accessCount > 1
  /\ now > 0

\* A step in which set has run cleanup: the cache was at its limit and the
\* step wrote the cache without counting a hit or a miss.
CleanupRan ==
  /\ Len(cache) >= maxEntries
  /\ cache' # cache
  /\ hitCount' = hitCount
  /\ missCount' = missCount

Entries(c) == {c[i] : i \in 1..Len(c)}
Keys(c) == {c[i].key : i \in 1..Len(c)}

\* C21 (as claimed): when eviction runs, no entry with expiresAt <= now is
\* left in the cache.
C21_EvictionRemovesExpiredAtNow ==
  [][CleanupRan
     => \A e \in Entries(cache) : e.expiresAt <= now => e \notin Entries(cache')]_vars

\* C21 (amended): when eviction runs, every entry with expiresAt < now is
\* removed; the entries removed besides are the floor(n / 4) lowest scores
\* among the n entries that remain, and only if n is at least 90% of the
\* limit; so with the entry set after it the cache holds between 1 and one
\* more than the number of entries it held.
C21_EvictionRemovesExpiredFirst ==
  [][CleanupRan
     => LET live == {e \in Entries(cache) : ~(e.expiresAt < now)}
            kept == {e \in live : e.key \in Keys(cache')}
            evicted == live \ kept
            quota == IF 10 * Cardinality(live) >= 9 * maxEntries
                     THEN Cardinality(live) \div 4 ELSE 0
        IN /\ \A e \in Entries(cache) :
                e.expiresAt < now => e \notin Entries(cache')
           /\ \A e \in evicted, k \in kept :
                e.lastAccessed + e.accessCount * FrequencyBonus
                  <= k.lastAccessed + k.accessCount * FrequencyBonus
           /\ Cardinality(evicted) <= quota
           /\ Len(cache') >= Cardinality(live) - quota
           /\ Len(cache') <= Cardinality(live) - quota + 1
           /\ Len(cache') >= 1
           /\ Len(cache') <= Len(cache) + 1]_vars

C21_Witness ==
  /\ maxEntries = SmallMaxEntries
  /\ now > 0
  /\ \E i \in 1..Len(cache) : cache[i].timestamp = now /\ cache[i].expiresAt = now + 1
  /\ \A i \in 1..Len(cache) : ~(cache[i].expiresAt < now)
  /\ Cardinality({i \in 1..Len(cache) : cache[i].data.model = "Cache: Prewarmed"}) = 2

\* A request r received in this step with a valid, cacheable body while the
\* cache holds entry e under the key POST looks the body up under.
LooksUp(r, e) ==
  /\ pc[r] = "idle"
  /\ pc'[r] # "idle"
  /\ ~OnlyWhitespace(req'[r].message)
  /\ req'[r].mode \in {"fast", "deep"}
  /\ shouldCache(req'[r].message, req'[r].mode)
  /\ e \in Entries(cache)
  /\ e.key = LookupKey(req'[r])

\* C22 (as claimed): a lookup finds the stored payload while
\* now < expiresAt, and from now = expiresAt on it misses and deletes the
\* entry.
C22_ExpiredFromExpiresAt ==
  [][\A r \in Requests : \A e \in Entries(cache) :
       LooksUp(r, e)
       => IF now < e.expiresAt
          THEN /\ pc'[r] = "CacheHit"
               /\ response'[r].content = Some(e.data)
          ELSE /\ pc'[r] # "CacheHit"
               /\ e.key \notin Keys(cache')]_vars

\* C22 (amended): a lookup finds the stored payload while
\* now <= expiresAt and counts a hit; once now > expiresAt it misses,
\* counts a miss and deletes the entry.
C22_ExpiredAfterExpiresAt ==
  [][\A r \in Requests : \A e \in Entries(cache) :
       LooksUp(r, e)
       => IF now <= e.expiresAt
          THEN /\ pc'[r] = "CacheHit"
               /\ response'[r].content = Some(e.data)
               /\ hitCount' = hitCount + 1
               /\ missCount' = missCount
               /\ e.key \in Keys(cache')
          ELSE /\ pc'[r] # "CacheHit"
               /\ e.key \notin Keys(cache')
               /\ missCount' = missCount + 1
               /\ hitCount' = hitCount]_vars

C22_Witness ==
  \E r \in Requests :
    /\ pc[r] = "CacheHit"
    /\ now > 0
    /\ \E e \in Entries(cache) :
         /\ e.key = LookupKey(req[r])
         /\ e.expiresAt = now
         /\ e.lastAccessed = now
         /\ e.accessCount = 2

\* C23 (as claimed): every entry of the cache expires after the instant it
\* was created at, whatever ttl set was called with.
C23_ExpiresAfterCreation ==
  \A e \in Entries(cache) : e.expiresAt > e.timestamp

\* The messages of this model that shouldCache is to refuse.
Uncacheable(message) ==
  \/ Len(message) < 3
  \/ Len(message) > 1000
  \/ message \in {MsgMoj, MsgStamp}

\* The keys of the stamped and of the personal message.
UncacheableKeys ==
  { generateCacheKey(m, mode, scope) :
      m \in {MsgMoj, MsgStamp}, mode \in {"fast", "deep"},
      scope \in {Undefined, "huggingface"} }

\* C24: an uncacheable message is never stored (no entry under the key of
\* the stamped or the personal message, none under a key as long as that of
\* the long message, which has more characters than the message; under the
\* key of "hi" only what was stored for "hi "), whether set is called directly or by
\* POST after a success; a request carrying one never gets a cache hit and
\* its lookup changes neither the entries nor the counters, even while an
\* entry sits under its key.
C24_UncacheableNeverStored ==
  /\ [](\A e \in Entries(cache) :
          /\ e.key \notin UncacheableKeys
          /\ Len(e.key) <= MaxMessageLength
          /\ e.key = LookupKey([message |-> MsgHi, mode |-> "fast"])
             => e.data = DirectData)
  /\ [][\A r \in Requests :
          /\ (pc[r] = "idle" /\ pc'[r] # "idle" /\ Uncacheable(req'[r].message))
             => /\ pc'[r] # "CacheHit"
                /\ UNCHANGED <<cache, hitCount, missCount>>
          /\ (pc[r] = "Dispatching" /\ pc'[r] = "Success"
              /\ Uncacheable(req[r].message))
             => cache' = cache]_vars

C24_Witness ==
  \E r \in Requests :
    /\ pc[r] = "Success"
    /\ req[r].message = MsgHi
    /\ \E e \in Entries(cache) :
         /\ e.key = LookupKey([message |-> MsgHi, mode |-> "fast"])
         /\ e.accessCount = 1
    /\ hitCount = 0

\* C25 (as claimed): a lookup returns an entry only if the entry was stored
\* for the same normalised message, the same mode and the same scope ('any'
\* when omitted).  POST looks up without a scope and stores under the
\* provider's; so a request that is answered from the cache has the
\* normalised message and the mode of a responseCache.set call made without
\* a scope.
C25_SameEntryIffSameKeyData ==
  [][\A r \in Requests :
       (pc[r] = "idle" /\ pc'[r] = "CacheHit")
       => \E c \in CollideCalls :
            KeyData(c.message, c.mode, c.provider)
              = KeyData(req'[r].message, req'[r].mode, Undefined)]_vars

\* C26: the step in which a dispatch of request r to provider P succeeds
\* leaves P healthy with no consecutive failures and no last error, answers
\* r with status 200 and the adapter's result, appends no dispatch, and, for
\* the cacheable message "hey", leaves that result in the cache under the
\* key of (message, mode, P), created at this instant; for the uncacheable
\* message it leaves the cache as it was.  Once answered, r stays answered
\* and dispatches no more.
C26_SuccessEndsRequest ==
  /\ [][\A r \in Requests :
          (pc[r] = "Dispatching" /\ pc'[r] = "Success")
          => /\ status'[currentProvider[r]].isHealthy
             /\ status'[currentProvider[r]].consecutiveFailures = 0
             /\ status'[currentProvider[r]].lastError = Undefined
             /\ response'[r].status = 200
             /\ response'[r].content # None
             /\ response'[r].content[1].model
                  = executeProviderRequest(currentProvider[r])
             /\ dispatched'[r] = dispatched[r]
             /\ req[r].message = MsgHey
                => \E i \in 1..Len(cache') :
                     /\ cache'[i].key = generateCacheKey(req[r].message, req[r].mode,
                                                         currentProvider[r])
                     /\ Some(cache'[i].data) = response'[r].content
                     /\ cache'[i].timestamp = now
                     /\ cache'[i].accessCount = 1
             /\ req[r].message = MsgMoj => cache' = cache]_vars
  /\ [][\A r \in Requests :
          pc[r] = "Success"
          => /\ pc'[r] = "Success"
             /\ dispatched'[r] = dispatched[r]
             /\ response'[r] = response[r]]_vars

C26_Witness ==
  \E r \in Requests :
    /\ pc[r] = "Success"
    /\ req[r].message = MsgHey
    /\ Len(dispatched[r]) = 3
    /\ dispatched[r][3] # dispatched[r][1]
    /\ status[dispatched[r][3]].isHealthy
    /\ ~status[dispatched[r][1]].isHealthy
    /\ \E i \in 1..Len(cache) :
         cache[i].key = generateCacheKey(MsgHey, "fast", dispatched[r][3])

\* C27: the step in which a dispatch of request r to P fails, with n the
\* attempts r has spent on P and the health records as the step leaves
\* them: if n < maxRetries(P) and P is healthy the next dispatch goes to P,
\* as attempt n + 1; otherwise, if a healthy provider Q follows P in
\* fallbackOrder, it goes to Q as attempt 1 (the counter is set to 0 and the
\* loop's next turn increments it); otherwise r ends in ExhaustedFailure
\* without a dispatch.  So the attempt counter of an awaiting request is the
\* number of its dispatches to its current provider, at most maxRetries.
C27_RetryThenSwitch ==
  /\ [](\A r \in Requests :
          pc[r] = "Dispatching"
          => /\ attemptCount[r] = Occurrences(dispatched[r], currentProvider[r])
             /\ attemptCount[r] <= providers[currentProvider[r]].maxRetries
             /\ dispatched[r][Len(dispatched[r])] = currentProvider[r])
  /\ [][\A r \in Requests :
          (/\ pc[r] = "Dispatching"
           /\ pc'[r] = "ExhaustedFailure" \/ dispatched'[r] # dispatched[r])
          => IF /\ attemptCount[r] < providers[currentProvider[r]].maxRetries
                /\ status'[currentProvider[r]].isHealthy
             THEN /\ pc'[r] = "Dispatching"
                  /\ currentProvider'[r] = currentProvider[r]
                  /\ attemptCount'[r] = attemptCount[r] + 1
                  /\ dispatched'[r] = Append(dispatched[r], currentProvider[r])
             ELSE IF NextHealthyAfter(status', currentProvider[r]) # Null
             THEN /\ pc'[r] = "Dispatching"
                  /\ currentProvider'[r]
                       = NextHealthyAfter(status', currentProvider[r])
                  /\ attemptCount'[r] = 1
                  /\ dispatched'[r] = Append(dispatched[r], currentProvider'[r])
             ELSE /\ pc'[r] = "ExhaustedFailure"
                  /\ dispatched'[r] = dispatched[r]]_vars

C27_Witness ==
  \E r \in Requests :
    /\ pc[r] = "Dispatching"
    /\ Len(fallbackOrder) = 3
    /\ currentProvider[r] = fallbackOrder[2]
    /\ attemptCount[r] = providers[fallbackOrder[2]].maxRetries
    /\ attemptCount[r] > 1
    /\ Occurrences(dispatched[r], fallbackOrder[1]) > attemptCount[r]

\* C28: a request whose dispatch to P fails while P is unhealthy (P was
\* healthy when the request chose it, so other requests made it unhealthy
\* during the dispatch) does not dispatch to P again, however few attempts
\* it has spent on P: it dispatches to the first healthy provider after P
\* or ends in ExhaustedFailure; and canRetryWithProvider is false of an
\* unhealthy provider for every number of attempts.
C28_NoRetryOfUnhealthy ==
  /\ [](\A p \in DOMAIN status, n \in 0..SumMaxRetries(fallbackOrder) :
          ~status[p].isHealthy => ~canRetryWithProvider(status, p, n))
  /\ [][\A r \in Requests :
          (/\ pc[r] = "Dispatching"
           /\ ~status[currentProvider[r]].isHealthy
           /\ pc'[r] = "ExhaustedFailure" \/ dispatched'[r] # dispatched[r])
          => /\ ~status'[currentProvider[r]].isHealthy
             /\ Occurrences(dispatched'[r], currentProvider[r])
                  = Occurrences(dispatched[r], currentProvider[r])
             /\ \/ /\ pc'[r] = "ExhaustedFailure"
                   /\ NextHealthyAfter(status', currentProvider[r]) = Null
                \/ /\ pc'[r] = "Dispatching"
                   /\ currentProvider'[r] # currentProvider[r]
                   /\ currentProvider'[r]
                        = NextHealthyAfter(status', currentProvider[r])
                   /\ dispatched'[r]
                        = Append(dispatched[r], currentProvider'[r])]_vars

C28_Witness ==
  \E r, q \in Requests :
    /\ r # q
    /\ pc[r] = "Dispatching"
    /\ dispatched[r] = <<fallbackOrder[1], fallbackOrder[2]>>
    /\ providers[fallbackOrder[1]].maxRetries > 1
    /\ Occurrences(dispatched[q], fallbackOrder[1])
         = providers[fallbackOrder[1]].maxRetries
    /\ ~status[fallbackOrder[1]].isHealthy
    /\ probesFired = 0

\* C29 (as claimed): the firing of a recovery timer of provider p lowers
\* consecutiveFailures of p by one, not below zero; at zero p is marked
\* healthy (isHealthy true, lastError cleared), above zero isHealthy and
\* lastError of p stay as they were.
C29_ProbeLowersByOne ==
  [][\A p \in DOMAIN status :
       timers'[p] = timers[p] - 1
       => IF Max(0, status[p].consecutiveFailures - 1) = 0
          THEN /\ status'[p].isHealthy
               /\ status'[p].consecutiveFailures = 0
               /\ status'[p].lastError = Undefined
          ELSE /\ status'[p].consecutiveFailures = status[p].consecutiveFailures - 1
               /\ status'[p].isHealthy = status[p].isHealthy
               /\ status'[p].lastError = status[p].lastError]_vars

\* C29 (amended): the firing of a recovery timer of provider p lowers
\* consecutiveFailures of p by two, not below zero; at one or zero p is
\* marked healthy (isHealthy true, lastError cleared, the count reset to
\* zero), above one isHealthy and lastError of p stay as they were.
C29_ProbeLowersByTwo ==
  [][\A p \in DOMAIN status :
       timers'[p] = timers[p] - 1
       => IF Max(0, status[p].consecutiveFailures - 2) <= 1
          THEN /\ status'[p].isHealthy
               /\ status'[p].consecutiveFailures = 0
               /\ status'[p].lastError = Undefined
          ELSE /\ status'[p].consecutiveFailures = status[p].consecutiveFailures - 2
               /\ status'[p].isHealthy = status[p].isHealthy
               /\ status'[p].lastError = status[p].lastError]_vars

C29_Witness ==
  \E p \in DOMAIN status :
    /\ probesFired = 1
    /\ ~status[p].isHealthy
    /\ status[p].consecutiveFailures = providers[p].maxRetries - 2
    /\ status[p].consecutiveFailures > 1
    /\ status[p].lastError # Undefined

\* C30: in the earlier revision of the registry, a provider marked
\* unhealthy is eventually healthy again once no further outcome is
\* reported for it, by the firing of its recovery timers alone, whatever
\* its maxRetries (1, 2 or 3).
C30_UnhealthyEventuallyRestored ==
  \A p \in AllNames :
    (p \in DOMAIN status /\ ~status[p].isHealthy)
      ~> (p \in DOMAIN status /\ status[p].isHealthy)

C32_GetFrame ==
  [][\A r \in Requests :
       (pc[r] = "idle" /\ pc'[r] \in {"CacheHit", "Dispatching", "NoProviders"})
       => IF ~shouldCache(req'[r].message, req'[r].mode)
          THEN /\ cache' = cache
               /\ hitCount' = hitCount
               /\ missCount' = missCount
          ELSE IF \A i \in 1..Len(cache) :
                    cache[i].key # generateCacheKey(req'[r].message,
                                                    req'[r].mode, Undefined)
          THEN /\ cache' = cache
               /\ hitCount' = hitCount
               /\ missCount' = missCount + 1
          ELSE \A i \in 1..Len(cache) :
                 cache[i].key = generateCacheKey(req'[r].message,
                                                 req'[r].mode, Undefined)
                 => IF now > cache[i].expiresAt
                    THEN /\ cache' = [j \in 1..(Len(cache) - 1) |->
                                        IF j < i THEN cache[j] ELSE cache[j + 1]]
                         /\ hitCount' = hitCount
                         /\ missCount' = missCount + 1
                         /\ pc'[r] # "CacheHit"
                    ELSE /\ cache' = [j \in 1..Len(cache) |->
                                        IF j # i THEN cache[j]
                                        ELSE [key |-> cache[i].key,
                                              data |-> cache[i].data,
                                              timestamp |-> cache[i].timestamp,
                                              expiresAt |-> cache[i].expiresAt,
                                              accessCount |->
                                                cache[i].accessCount + 1,
                                              lastAccessed |-> now]]
                         /\ hitCount' = hitCount + 1
                         /\ missCount' = missCount
                         /\ pc'[r] = "CacheHit"]_vars

\* A request was answered from an entry stored earlier than now, among
\* other entries.
C32_Witness ==
  \E r \in Requests, i \in 1..Len(cache) :
    /\ pc[r] = "CacheHit"
    /\ hitCount = 1
    /\ Len(cache) > 1
    /\ cache[i].accessCount = 2
    /\ cache[i].lastAccessed = now
    /\ cache[i].timestamp < now

\* The entries of c at the positions of I, in the order of c.
KeepAt(c, I) ==
  [k \in 1..Cardinality(I) |->
     c[CHOOSE i \in I : Cardinality({j \in I : j < i}) = k - 1]]

\* C33: when eviction runs, with live the entries that have not expired:
\* if live holds at least 90% of the limit, exactly floor(|live| / 4) of
\* them are removed and none of the removed has a score above that of an
\* entry that is kept; otherwise every entry of live is kept.  The cache
\* after the step is what is kept with the entry set after it.
C33_EvictsLowestQuarter ==
  [][CleanupRan
     => \E kept \in SUBSET {i \in 1..Len(cache) : ~(now > cache[i].expiresAt)} :
          /\ \E w \in 1..Len(cache') :
               cache' = Put(KeepAt(cache, kept), cache'[w])
          /\ IF 10 * Cardinality({i \in 1..Len(cache) :
                                    ~(now > cache[i].expiresAt)})
                  >= 9 * maxEntries
             THEN /\ Cardinality({i \in 1..Len(cache) :
                                    ~(now > cache[i].expiresAt)} \ kept)
                       = Cardinality({i \in 1..Len(cache) :
                                        ~(now > cache[i].expiresAt)}) \div 4
                  /\ \A i \in {j \in 1..Len(cache) :
                                 ~(now > cache[j].expiresAt)} \ kept :
                       \A k \in kept :
                         cache[i].lastAccessed
                             + cache[i].accessCount * FrequencyBonus
                           <= cache[k].lastAccessed
                                + cache[k].accessCount * FrequencyBonus
             ELSE kept = {i \in 1..Len(cache) : ~(now > cache[i].expiresAt)}]_vars

\* Nothing has expired, and an entry of the warm-up has made room for an
\* entry written later, at a later instant.
C33_Witness ==
  /\ maxEntries = SmallMaxEntries
  /\ Len(cache) = maxEntries
  /\ \A i \in 1..Len(cache) : ~(now > cache[i].expiresAt)
  /\ Cardinality({i \in 1..Len(cache) :
                    cache[i].data.model = "Cache: Prewarmed"}) = 2
  /\ \E i \in 1..Len(cache) : cache[i].timestamp > 0

\* C34: a request that asks one of the questions of warmup, received
\* before the 24 hours of the warm-up TTL have passed, is answered from the
\* cache with the seeded answer and is dispatched to no provider.
C34_SeededQuestionsHit ==
  \A r \in Requests, n \in 1..Len(CommonQueries) :
    (/\ pc[r] # "idle"
     /\ req[r].message = CommonQueries[n].message
     /\ req[r].mode = CommonQueries[n].mode
     /\ now <= WarmupTTL)
    => /\ pc[r] = "CacheHit"
       /\ dispatched[r] = <<>>
       /\ response[r].content # None
       /\ response[r].content[1].content = CommonQueries[n].response

C36_RetriesServerErrors ==
  (/\ client.pc = "Threw"
   /\ client.last.status \in {500, 502, 503, 504})
  => client.attempt = MAX_RETRIES

\* C37: the providers a request has been dispatched to follow the order of
\* fallbackOrder: no dispatch goes to a provider placed before the provider
\* of an earlier dispatch of the same request, whatever the health of that
\* provider has become.
C37_DispatchOrderMonotone ==
  \A r \in Requests :
    \A i, j \in 1..Len(dispatched[r]) :
      i < j => /\ IndexOf(fallbackOrder, dispatched[r][i]) > 0
               /\ IndexOf(fallbackOrder, dispatched[r][i])
                    <= IndexOf(fallbackOrder, dispatched[r][j])

\* A request has gone through the three providers and ended in
\* ExhaustedFailure while the first of them was healthy again.
C37_Witness ==
  \E r \in Requests :
    /\ pc[r] = "ExhaustedFailure"
    /\ Len(fallbackOrder) = 3
    /\ dispatched[r][1] = fallbackOrder[1]
    /\ dispatched[r][Len(dispatched[r])] = fallbackOrder[3]
    /\ status[fallbackOrder[1]].isHealthy

\* C38: in every state and for every provider, consecutiveFailures is not
\* negative; a provider with no consecutive failure is healthy and has no
\* lastError; an unhealthy provider has at least one consecutive failure
\* and a lastError.
C38_HealthRecordConsistent ==
  \A p \in DOMAIN status :
    /\ status[p].consecutiveFailures >= 0
    /\ status[p].consecutiveFailures = 0
       => status[p].isHealthy /\ status[p].lastError = Undefined
    /\ ~status[p].isHealthy
       => /\ status[p].consecutiveFailures >= 1
          /\ status[p].lastError # Undefined

\* After a recovery timer has fired: one provider is unhealthy, another is
\* healthy with failures counted, a third has been reset.
C38_Witness ==
  /\ probesFired > 0
  /\ \E p, q, n \in DOMAIN status :
       /\ ~status[p].isHealthy
       /\ status[q].isHealthy
       /\ status[q].consecutiveFailures > 0
       /\ status[q].lastError # Undefined
       /\ n \in Range(dispatched[1]) \cup Range(dispatched[2])
       /\ status[n].consecutiveFailures = 0

\* The payload of a warm-up entry, or what an adapter of a provider of
\* fallbackOrder has answered.
IsAnswer(data) ==
  \/ \E n \in 1..Len(CommonQueries) :
       data = [content |-> CommonQueries[n].response,
               mode |-> CommonQueries[n].mode, model |-> "Cache: Prewarmed"]
  \/ /\ data.content \in Contents
     /\ data.model \in {executeProviderRequest(fallbackOrder[i]) :
                          i \in 1..Len(fallbackOrder)}

\* C39: POST adds or replaces a cache entry only in the step in which a
\* dispatch succeeds, and the entry holds the answer of that dispatch under
\* the key of the request and its provider; a failed dispatch, the end in
\* ExhaustedFailure and a request rejected by validation write no entry.
\* So every entry holds a warm-up answer or the answer of an adapter, and
\* so does every response served from the cache.
C39_OnlySuccessesCached ==
  /\ [](/\ \A i \in 1..Len(cache) : IsAnswer(cache[i].data)
        /\ \A r \in Requests :
             pc[r] = "CacheHit"
             => /\ response[r].status = 200
                /\ IsAnswer(response[r].content[1]))
  /\ [][\A i \in 1..Len(cache') :
          (\A j \in 1..Len(cache) :
             \/ cache[j].key # cache'[i].key
             \/ cache[j].data # cache'[i].data
             \/ cache[j].timestamp # cache'[i].timestamp
             \/ cache[j].expiresAt # cache'[i].expiresAt)
          => \E r \in Requests :
               /\ pc[r] = "Dispatching"
               /\ pc'[r] = "Success"
               /\ response'[r].status = 200
               /\ cache'[i].data = response'[r].content[1]
               /\ cache'[i].key = generateCacheKey(req[r].message, req[r].mode,
                                                   currentProvider[r])]_vars

\* One request has ended in ExhaustedFailure after its failed dispatches,
\* the other has been answered by a provider, and the cache holds that
\* answer next to the warm-up entries.
C39_Witness ==
  \E r, q \in Requests :
    /\ pc[r] = "ExhaustedFailure"
    /\ Len(dispatched[r]) > 1
    /\ pc[q] = "Success"
    /\ \E i \in 1..Len(cache) : cache[i].data = response[q].content[1]
    /\ \E i \in 1..Len(cache) : cache[i].data.model = "Cache: Prewarmed"

\* The names the registry's methods are called with: the six of
\* initializeProviders and one that is in neither map.
ReportedNames == AllNames \cup {"openai"}

\* out is reg with at most the health record of providerName changed.
OnlyRecordOf(providerName, reg, out) ==
  /\ DOMAIN out.status = DOMAIN reg.status
  /\ \A q \in DOMAIN reg.status \ {providerName} :
       out.status[q] = reg.status[q]

\* C40: markProviderAsUnhealthy, markProviderAsHealthy and a recovery probe
\* for provider P change no health record but P's; with a name that is not
\* registered they change nothing, and a probe for a disabled provider
\* changes nothing.  No step of the program changes a ProviderConfig or
\* fallbackOrder, and a step that changes a health record changes one
\* only: that of the provider a request is dispatched to, or of the
\* provider whose recovery timer has fired.
C40_HealthFrame ==
  /\ [](\A n \in ReportedNames, t \in {now, now + 1}, check \in BOOLEAN :
          /\ OnlyRecordOf(n, Registry,
                          markProviderAsUnhealthy(Registry, n, ErrorMessage(n), t))
          /\ OnlyRecordOf(n, Registry, markProviderAsHealthy(Registry, n, t))
          /\ OnlyRecordOf(n, Registry,
                          attemptProviderRecovery(Registry, n, check, t))
          /\ n \notin DOMAIN providers
             => /\ markProviderAsUnhealthy(Registry, n, ErrorMessage(n), t)
                     = Registry
                /\ markProviderAsHealthy(Registry, n, t) = Registry
                /\ attemptProviderRecovery(Registry, n, check, t) = Registry
          /\ (n \in DOMAIN providers /\ ~providers[n].enabled)
             => attemptProviderRecovery(Registry, n, check, t) = Registry)
  /\ [][/\ providers' = providers
        /\ fallbackOrder' = fallbackOrder
        /\ names' = names
        /\ DOMAIN status' = DOMAIN status
        /\ \A p, q \in DOMAIN status :
             (status'[p] # status[p] /\ status'[q] # status[q]) => p = q
        /\ \A p \in DOMAIN status :
             status'[p] # status[p]
             => \/ \E r \in Requests :
                     pc[r] = "Dispatching" /\ currentProvider[r] = p
                \/ timers'[p] < timers[p]]_vars

\* A provider has failures counted while another, enabled and behind it in
\* fallbackOrder, has just been reported: its record alone is touched; and
\* a disabled provider is registered, for which a probe would do nothing.
C40_Witness ==
  \E p, q \in DOMAIN status :
    /\ p # q
    /\ status[p].consecutiveFailures > 0
    /\ status[q].consecutiveFailures > 0
    /\ status[p].lastCheck # status[q].lastCheck
    /\ \E d \in DOMAIN providers :
         /\ ~providers[d].enabled
         /\ status[d].consecutiveFailures = 0
         /\ status[d].lastCheck # now

====
